---- MODULE Spec2Model ----
(***************************************************************************)
(* The agentic tool-calling loop of the OpenClaw backend                   *)
(* (backend/agents/agent-loop.ts, the older backend/agent-loop.ts), the    *)
(* tool registry (backend/tools.ts), the skill router and the context      *)
(* assembler (backend/agents/context.ts), the /api/chat handler            *)
(* (backend/index.ts) and the Telegram poller (backend/telegram.ts), as    *)
(* state machines.                                                         *)
(*                                                                         *)
(* Text is a sequence of tokens; "" and <<>> are the empty (falsy) string  *)
(* of JavaScript.                                                          *)
(***************************************************************************)
EXTENDS Integers, Sequences, FiniteSets, TLC

VARIABLES
  impl,              \* which runAgentLoopStreaming is running
  maxIterations,     \* config.maxIterations
  pc,                \* position of the run inside the function
  iteration,         \* let iteration
  messages,          \* const messages = [...initialMessages]
  events,            \* everything handed to emitEvent, in order
  assistantContent,  \* let assistantContent
  toolCalls,         \* the Map toolCalls, as its entries in insertion order
  finishReason,      \* let finishReason
  cursor,            \* position of the for-of loop over toolCalls
  obs,               \* observations of the run: calls made, calls in flight
  fragLog,           \* the tool-call deltas of the current stream, as they arrived
  execLog,           \* the executeTool calls made, in order
  router,            \* one call of selectSkills
  chat,              \* one request to /api/chat
  telegram,          \* the TelegramService singleton and its poll loops
  call,              \* one call of a helper function: arguments and result
  oauth,             \* the Google OAuth handlers and pendingGoogleStates
  browser,           \* the browser module's state and its callers
  bot                \* the Telegram conversations and the handleMessage calls

vars == <<impl, maxIterations, pc, iteration, messages, events,
          assistantContent, toolCalls, finishReason, cursor, obs,
          fragLog, execLog, router, chat, telegram, call, oauth, browser,
          bot>>

loopVars == <<impl, maxIterations, pc, iteration, messages, events,
              assistantContent, toolCalls, finishReason, cursor, obs,
              fragLog, execLog>>

----------------------------------------------------------------------------
(* Bounds of the model *)

MaxIter == 2        \* largest config.maxIterations tried
MaxChunks == 2      \* stream chunks consumed in one run
MaxIndex == 1       \* largest tool-call index a delta carries
MaxSkills == 2      \* largest skill catalog handed to the router
MaxText == 2        \* longest output and error text handed to formatToolResult
MaxCalls == 3       \* start and stop calls made on the Telegram service

----------------------------------------------------------------------------
(* Text *)

RECURSIVE Concat(_)
Concat(ss) == IF ss = <<>> THEN <<>> ELSE Head(ss) \o Concat(Tail(ss))

IsWhitespace(t) == t \in {" ", "\n"}

RECURSIVE TrimStart(_)
TrimStart(s) ==
  IF s # <<>> /\ IsWhitespace(Head(s)) THEN TrimStart(Tail(s)) ELSE s

RECURSIVE TrimEnd(_)
TrimEnd(s) ==
  IF s # <<>> /\ IsWhitespace(s[Len(s)])
  THEN TrimEnd(SubSeq(s, 1, Len(s) - 1)) ELSE s

Trim(s) == TrimEnd(TrimStart(s))

----------------------------------------------------------------------------
(* Tool registry: backend/tools.ts *)

\* the names toolRegistry holds
toolRegistry == {"bash"}

\* what a registered tool's execute(args) can settle to
ToolOutcomes ==
  { [threw |-> FALSE, success |-> TRUE,  output |-> <<"X">>, error |-> <<>>],
    [threw |-> FALSE, success |-> FALSE, output |-> <<"Y">>, error |-> <<"E">>],
    [threw |-> FALSE, success |-> FALSE, output |-> <<>>,    error |-> <<"E">>],
    [threw |-> TRUE,  success |-> FALSE, output |-> <<>>,    error |-> <<"boom">>] }

UnknownToolResult(name) ==
  [threw |-> FALSE, success |-> FALSE, output |-> <<>>,
   error |-> <<"Unknown tool: ", name>>]

\* executeTool, were it to throw for a name that is not registered
executeToolThrowsOnUnknown(name) ==
  IF name \in toolRegistry THEN ToolOutcomes
  ELSE {[threw |-> TRUE, success |-> FALSE, output |-> <<>>,
         error |-> <<"Unknown tool: ", name>>]}

\* the set of ways executeTool(name, args) can settle
executeTool(name) ==
  IF name \in toolRegistry THEN ToolOutcomes ELSE {UnknownToolResult(name)}

\* formatToolResult, were it to leave out .trim()
formatToolResultUntrimmed(result) ==
  IF result.success THEN result.output
  ELSE <<"Error:", " ">> \o result.error \o <<"\n">> \o result.output

formatToolResult(result) ==
  IF result.success THEN result.output
  ELSE Trim(<<"Error:", " ">> \o result.error \o <<"\n">> \o result.output)

----------------------------------------------------------------------------
(* Messages and events *)

ContentNull == <<"<null>">>     \* content: null
NoId == "<none>"                \* a message without tool_call_id

Msg(role, content) ==
  [role |-> role, content |-> content, tool_calls |-> <<>>,
   tool_call_id |-> NoId]

initialMessages == << Msg("system", <<"sys">>), Msg("user", <<"hi">>) >>

Ev(type) ==
  [type |-> type, iteration |-> 0, content |-> <<>>, name |-> "",
   toolCallId |-> NoId, success |-> FALSE, error |-> <<>>]

IterationEvent(n) == [Ev("iteration") EXCEPT !.iteration = n]
ContentEvent(text) == [Ev("content") EXCEPT !.content = text]
ToolCallEvent(tc) ==
  [Ev("tool_call") EXCEPT !.name = tc.name, !.toolCallId = tc.id]
\* the tool_result event, were it to leave out the call id
ToolResultEventAnonymous(tc, result) ==
  [Ev("tool_result") EXCEPT !.name = tc.name, !.success = result.success,
                            !.error = result.error]
ToolResultEvent(tc, result) ==
  [Ev("tool_result") EXCEPT !.name = tc.name, !.toolCallId = tc.id,
                            !.success = result.success,
                            !.error = result.error]
ExceptionEvent(message) == [Ev("error") EXCEPT !.error = message]
CapEvent == [Ev("error") EXCEPT !.error = <<"Reached maximum iterations">>]
Placeholder == <<"(No response)">>

----------------------------------------------------------------------------
(* The model's stream: chunks and tool-call deltas *)

Ids == {"call_a", "call_b"}
Names == {"bash", "nope"}
ArgFrags == { <<"{k}">>, <<"x">> }  \* "{k}" stands for the text {"k":1}
ContentFrags == { <<"h">> }
FinishReasons == {"stop", "tool_calls"}

Delta(i, id, name, args) ==
  [index |-> i, id |-> id, name |-> name, arguments |-> args]

\* a delta carries an id, a name or an argument fragment
Deltas ==
  UNION { {Delta(i, id, "", <<>>) : id \in Ids}
          \cup {Delta(i, "", n, <<>>) : n \in Names}
          \cup {Delta(i, "", "", a) : a \in ArgFrags} : i \in 0..MaxIndex }

Chunk(content, deltas, finish) ==
  [content |-> content, tool_calls |-> deltas, finish_reason |-> finish]

Chunks ==
  {Chunk(<<>>, <<>>, "null")}
  \cup {Chunk(c, <<>>, "null") : c \in ContentFrags}
  \cup {Chunk(<<>>, <<d>>, "null") : d \in Deltas}
  \cup {Chunk(<<>>, <<>>, f) : f \in FinishReasons}

Has(tcs, index) == \E k \in 1..Len(tcs) : tcs[k].index = index
PosOf(tcs, index) == CHOOSE k \in 1..Len(tcs) : tcs[k].index = index

\* toolCalls.set(index, {...}) when the index is new
SetIfAbsent(tcs, d) ==
  IF Has(tcs, d.index) THEN tcs
  ELSE Append(tcs, [index |-> d.index, id |-> d.id, name |-> d.name,
                    arguments |-> <<>>])

MergeDeltaPrepend(tcs, d) ==
  LET t == SetIfAbsent(tcs, d)
      k == PosOf(t, d.index)
  IN [t EXCEPT ![k] = [index |-> t[k].index,
        id |-> IF d.id # "" THEN d.id ELSE t[k].id,
        name |-> IF d.name # "" THEN d.name ELSE t[k].name,
        arguments |-> d.arguments \o t[k].arguments]]

\* the accumulation of one tool-call delta into the Map
MergeDelta(tcs, d) ==
  LET t == SetIfAbsent(tcs, d)
      k == PosOf(t, d.index)
  IN [t EXCEPT ![k] = [index |-> t[k].index,
        id |-> IF d.id # "" THEN d.id ELSE t[k].id,
        name |-> IF d.name # "" THEN d.name ELSE t[k].name,
        arguments |-> t[k].arguments \o d.arguments]]

RECURSIVE MergeDeltas(_, _)
MergeDeltas(tcs, ds) ==
  IF ds = <<>> THEN tcs ELSE MergeDeltas(MergeDelta(tcs, Head(ds)), Tail(ds))

\* JSON.parse(toolCall.arguments) without the fallback of the catch block
ParseArgsNoFallback(text) ==
  IF text = <<"{k}">> THEN "{k:1}" ELSE "<undefined>"

\* JSON.parse(toolCall.arguments), falling back to {}
ParseArgs(text) == IF text = <<"{k}">> THEN "{k:1}" ELSE "{}"

\* Array.from(toolCalls.values()).map(...)
ToolCallRequests(tcs) ==
  [k \in 1..Len(tcs) |->
     [id |-> tcs[k].id, type |-> "function", name |-> tcs[k].name,
      arguments |-> tcs[k].arguments]]

----------------------------------------------------------------------------
(* runAgentLoopStreaming *)

Impls == {"agents", "legacy"}

PcAwaitToolNotAwaited == "exec"

\* where the run waits after it called executeTool: `await executeTool(...)`
PcAwaitTool == "tool_wait"

Emit(e) == events' = Append(events, e)

LoopConditionInclusive == iteration <= maxIterations

\* while (iteration < config.maxIterations)
LoopCondition == iteration < maxIterations

\* if (iteration >= config.maxIterations), after the loop
CapReached == iteration >= maxIterations

ToolMessageByName(tc, result) ==
  [role |-> "tool", content |-> formatToolResult(result),
   tool_calls |-> <<>>, tool_call_id |-> tc.name]

\* messages.push({role: "tool", tool_call_id: toolCall.id, content: ...})
ToolMessage(tc, result) ==
  [role |-> "tool", content |-> formatToolResult(result),
   tool_calls |-> <<>>, tool_call_id |-> tc.id]

InitLoop(impls) ==
  /\ impl \in impls
  /\ maxIterations \in 0..MaxIter
  /\ pc = "loop"
  /\ iteration = 0
  /\ messages = initialMessages
  /\ events = <<>>
  /\ assistantContent = <<>>
  /\ toolCalls = <<>>
  /\ finishReason = "null"
  /\ cursor = 0
  /\ obs = [modelCalls |-> 0, modelInFlight |-> 0, toolInFlight |-> 0,
            chunks |-> 0, thrown |-> "none", terminal |-> 0,
            silentDrop |-> 0]
  /\ fragLog = <<>>
  /\ execLog = <<>>

RouterIdle == [pc |-> "idle"]
ChatIdle == [pc |-> "idle"]
TelegramIdle == [pc |-> "idle"]
CallIdle == [pc |-> "idle"]
OAuthIdle == [pc |-> "idle"]
BrowserIdle == [pc |-> "idle"]
BotIdle == [pc |-> "idle"]

\* the servers and the browser module are not part of the run
ServersIdle ==
  oauth = OAuthIdle /\ browser = BrowserIdle /\ bot = BotIdle

\* the services that take no part in a run of the loop alone
ServicesIdle ==
  /\ router = RouterIdle /\ chat = ChatIdle /\ telegram = TelegramIdle
  /\ call = CallIdle /\ ServersIdle

\* while (iteration < config.maxIterations) { iteration++; emit; create(...)
LoopEnter ==
  /\ pc = "loop"
  /\ LoopCondition
  /\ iteration' = iteration + 1
  /\ Emit(IterationEvent(iteration + 1))
  /\ obs' = [obs EXCEPT !.modelCalls = @ + 1, !.modelInFlight = @ + 1]
  /\ pc' = "create"
  /\ UNCHANGED <<impl, maxIterations, messages, assistantContent, toolCalls,
                 finishReason, cursor, fragLog, execLog, router,
                 chat, telegram, call, oauth, browser, bot>>

\* the while condition is false
LoopExit ==
  /\ pc = "loop"
  /\ ~LoopCondition
  /\ pc' = "cap"
  /\ UNCHANGED <<impl, maxIterations, iteration, messages, events,
                 assistantContent, toolCalls, finishReason, cursor, obs,
                 fragLog, execLog, router,
                 chat, telegram, call, oauth, browser, bot>>

\* the promise of create() resolves with a stream
CreateResolves ==
  /\ pc = "create"
  /\ impl # "plain"
  /\ assistantContent' = <<>>
  /\ toolCalls' = <<>>
  /\ finishReason' = "null"
  /\ fragLog' = <<>>
  /\ pc' = "stream"
  /\ UNCHANGED <<impl, maxIterations, iteration, messages, events, cursor,
                 obs, execLog, router,
                 chat, telegram, call, oauth, browser, bot>>

\* create() rejects or the stream throws: the catch block
ModelThrows ==
  /\ pc \in {"create", "stream", "final_create", "final_stream"}
  /\ Emit(ExceptionEvent(<<"model failed">>))
  /\ obs' = [obs EXCEPT !.modelInFlight = @ - 1, !.thrown = "model"]
  /\ pc' = "cap"
  /\ UNCHANGED <<impl, maxIterations, iteration, messages, assistantContent,
                 toolCalls, finishReason, cursor, fragLog, execLog, router,
                 chat, telegram, call, oauth, browser, bot>>

\* one turn of the stream loop, were content buffered without being emitted
StreamChunkBuffered(chunk) ==
  /\ pc = "stream"
  /\ obs.chunks < MaxChunks
  /\ finishReason' =
       IF chunk.finish_reason # "null" THEN chunk.finish_reason
       ELSE finishReason
  /\ assistantContent' = assistantContent \o chunk.content
  /\ toolCalls' = MergeDeltas(toolCalls, chunk.tool_calls)
  /\ fragLog' = fragLog \o chunk.tool_calls
  /\ obs' = [obs EXCEPT !.chunks = @ + 1]
  /\ UNCHANGED <<impl, maxIterations, pc, iteration, messages, cursor,
                 events, execLog, router, chat, telegram, call, oauth, browser, bot>>

\* one turn of `for await (const chunk of stream)`
StreamChunk(chunk) ==
  /\ pc = "stream"
  /\ obs.chunks < MaxChunks
  /\ finishReason' =
       IF chunk.finish_reason # "null" THEN chunk.finish_reason
       ELSE finishReason
  /\ IF chunk.content # <<>>
     THEN /\ assistantContent' = assistantContent \o chunk.content
          /\ Emit(ContentEvent(chunk.content))
     ELSE UNCHANGED <<assistantContent, events>>
  /\ toolCalls' = MergeDeltas(toolCalls, chunk.tool_calls)
  /\ fragLog' = fragLog \o chunk.tool_calls
  /\ obs' = [obs EXCEPT !.chunks = @ + 1]
  /\ UNCHANGED <<impl, maxIterations, pc, iteration, messages, cursor,
                 execLog, router,
                 chat, telegram, call, oauth, browser, bot>>

\* the stream is exhausted
StreamEnd ==
  /\ pc = "stream"
  /\ obs' = [obs EXCEPT !.modelInFlight = @ - 1]
  /\ pc' = "decide"
  /\ UNCHANGED <<impl, maxIterations, iteration, messages, events,
                 assistantContent, toolCalls, finishReason, cursor, fragLog,
                 execLog, router,
                 chat, telegram, call, oauth, browser, bot>>

\* agents/agent-loop.ts: if (toolCalls.size > 0)
ToolBranchAgents == Len(toolCalls) > 0

\* agent-loop.ts: if (toolCalls.size > 0 && finishReason === "tool_calls")
ToolBranchLegacy == Len(toolCalls) > 0 /\ finishReason = "tool_calls"

\* the condition under which the turn's tool calls are executed
TakesToolBranch ==
  IF impl = "agents" THEN ToolBranchAgents ELSE ToolBranchLegacy

AssistantMessage ==
  [role |-> "assistant",
   content |-> IF assistantContent # <<>> THEN assistantContent
               ELSE ContentNull,
   tool_calls |-> ToolCallRequests(toolCalls),
   tool_call_id |-> NoId]

\* if (toolCalls.size > 0) { messages.push(assistantMessage); for (...) ...
DecideTools ==
  /\ pc = "decide"
  /\ TakesToolBranch
  /\ messages' = Append(messages, AssistantMessage)
  /\ cursor' = 1
  /\ pc' = "exec"
  /\ UNCHANGED <<impl, maxIterations, iteration, events, assistantContent,
                 toolCalls, finishReason, obs, fragLog, execLog, router,
                 chat, telegram, call, oauth, browser, bot>>

\* the terminal turn, were it to emit the placeholder whatever the content
DecideTerminalAlwaysPlaceholder ==
  /\ pc = "decide"
  /\ impl = "agents"
  /\ ~TakesToolBranch
  /\ IF assistantContent # <<>>
     THEN messages' = Append(messages, Msg("assistant", assistantContent))
     ELSE UNCHANGED messages
  /\ Emit(ContentEvent(Placeholder))
  /\ obs' = [obs EXCEPT !.terminal = @ + 1]
  /\ pc' = "cap"
  /\ UNCHANGED <<impl, maxIterations, iteration, assistantContent, toolCalls,
                 finishReason, cursor, fragLog, execLog, router,
                 chat, telegram, call, oauth, browser, bot>>

\* agents/agent-loop.ts, no tool calls: push the answer or emit the
\* placeholder, then break
DecideTerminal ==
  /\ pc = "decide"
  /\ impl = "agents"
  /\ ~TakesToolBranch
  /\ IF assistantContent # <<>>
     THEN /\ messages' = Append(messages, Msg("assistant", assistantContent))
          /\ UNCHANGED events
     ELSE /\ Emit(ContentEvent(Placeholder))
          /\ UNCHANGED messages
  /\ obs' = [obs EXCEPT !.terminal = @ + 1]
  /\ pc' = "cap"
  /\ UNCHANGED <<impl, maxIterations, iteration, assistantContent, toolCalls,
                 finishReason, cursor, fragLog, execLog, router,
                 chat, telegram, call, oauth, browser, bot>>

\* agent-loop.ts, the tool branch not taken: emit the placeholder when there
\* is neither content nor a tool call, then break
DecideTerminalLegacy ==
  /\ pc = "decide"
  /\ impl = "legacy"
  /\ ~TakesToolBranch
  /\ IF assistantContent = <<>> /\ Len(toolCalls) = 0
     THEN Emit(ContentEvent(Placeholder))
     ELSE UNCHANGED events
  /\ obs' = [obs EXCEPT !.terminal = @ + 1,
                        !.silentDrop = IF Len(toolCalls) > 0 THEN @ + 1 ELSE @]
  /\ pc' = "cap"
  /\ UNCHANGED <<impl, maxIterations, iteration, messages, assistantContent,
                 toolCalls, finishReason, cursor, fragLog, execLog, router,
                 chat, telegram, call, oauth, browser, bot>>

PendingResult ==
  [threw |-> FALSE, success |-> FALSE, output |-> <<>>, error |-> <<"pending">>]

\* the arguments of the deltas of `log` tagged `index`, in arrival order
FragmentsOf(log, index) ==
  LET mine == SelectSeq(log, LAMBDA d : d.index = index)
  IN Concat([k \in 1..Len(mine) |-> mine[k].arguments])

\* runAgentLoop skips a tool call whose type is not "function"; the Map of
\* the streaming loops holds function calls only
IsFunctionCall(tc) == impl = "plain" => tc.type = "function"

\* the next tool call of the turn: parse, emit tool_call, call executeTool
ExecStart ==
  /\ pc = "exec"
  /\ cursor <= Len(toolCalls)
  /\ IsFunctionCall(toolCalls[cursor])
  /\ LET tc == toolCalls[cursor] IN
       /\ Emit(ToolCallEvent(tc))
       /\ execLog' = Append(execLog,
            [iteration |-> iteration, index |-> tc.index, id |-> tc.id,
             name |-> tc.name, text |-> tc.arguments,
             args |-> ParseArgs(tc.arguments),
             expected |-> FragmentsOf(fragLog, tc.index),
             settled |-> FALSE, result |-> PendingResult])
  /\ obs' = [obs EXCEPT !.toolInFlight = @ + 1]
  /\ pc' = PcAwaitTool
  /\ UNCHANGED <<impl, maxIterations, iteration, messages, assistantContent,
                 toolCalls, finishReason, cursor, fragLog, router,
                 chat, telegram, call, oauth, browser, bot>>

\* the for-of loop is over: continue
ExecDone ==
  /\ pc = "exec"
  /\ cursor > Len(toolCalls)
  /\ pc' = "loop"
  /\ UNCHANGED <<impl, maxIterations, iteration, messages, events,
                 assistantContent, toolCalls, finishReason, cursor, obs,
                 fragLog, execLog, router,
                 chat, telegram, call, oauth, browser, bot>>

\* every way a call of executeTool could settle
Settlements ==
  ToolOutcomes
  \cup {[threw |-> t, success |-> FALSE, output |-> <<>>,
         error |-> <<"Unknown tool: ", n>>] :
          t \in BOOLEAN, n \in Names \cup {""}}

\* executeTool resolves: emit tool_result, push the tool message
ToolReturns(result) ==
  /\ pc = "tool_wait"
  /\ result \in executeTool(toolCalls[cursor].name)
  /\ ~result.threw
  /\ Emit(ToolResultEvent(toolCalls[cursor], result))
  /\ messages' = Append(messages, ToolMessage(toolCalls[cursor], result))
  /\ execLog' = [execLog EXCEPT ![Len(execLog)].settled = TRUE,
                                ![Len(execLog)].result = result]
  /\ obs' = [obs EXCEPT !.toolInFlight = @ - 1]
  /\ cursor' = cursor + 1
  /\ pc' = "exec"
  /\ UNCHANGED <<impl, maxIterations, iteration, assistantContent, toolCalls,
                 finishReason, fragLog, router,
                 chat, telegram, call, oauth, browser, bot>>

\* executeTool rejects, were the rejection caught per tool call and the
\* for-of loop to go on
ToolThrowsContinues(result) ==
  /\ pc = "tool_wait"
  /\ result \in executeTool(toolCalls[cursor].name)
  /\ result.threw
  /\ Emit(ExceptionEvent(result.error))
  /\ execLog' = [execLog EXCEPT ![Len(execLog)].settled = TRUE,
                                ![Len(execLog)].result = result]
  /\ obs' = [obs EXCEPT !.toolInFlight = @ - 1, !.thrown = "tool"]
  /\ cursor' = cursor + 1
  /\ pc' = "exec"
  /\ UNCHANGED <<impl, maxIterations, iteration, messages, assistantContent,
                 toolCalls, finishReason, fragLog, router,
                 chat, telegram, call, oauth, browser, bot>>

\* executeTool rejects: the catch block
ToolThrows(result) ==
  /\ pc = "tool_wait"
  /\ result \in executeTool(toolCalls[cursor].name)
  /\ result.threw
  /\ Emit(ExceptionEvent(result.error))
  /\ execLog' = [execLog EXCEPT ![Len(execLog)].settled = TRUE,
                                ![Len(execLog)].result = result]
  /\ obs' = [obs EXCEPT !.toolInFlight = @ - 1, !.thrown = "tool"]
  /\ pc' = "cap"
  /\ UNCHANGED <<impl, maxIterations, iteration, messages, assistantContent,
                 toolCalls, finishReason, cursor, fragLog, router,
                 chat, telegram, call, oauth, browser, bot>>

\* after the loop: if (iteration >= config.maxIterations) emit the cap error
CapCheck ==
  /\ pc = "cap"
  /\ IF CapReached THEN Emit(CapEvent) ELSE UNCHANGED events
  /\ pc' = "done"
  /\ UNCHANGED <<impl, maxIterations, iteration, messages, assistantContent,
                 toolCalls, finishReason, cursor, obs, fragLog, execLog,
                 router,
                 chat, telegram, call, oauth, browser, bot>>

Init == InitLoop(Impls) /\ ServicesIdle

Next ==
  \/ LoopEnter
  \/ LoopExit
  \/ CreateResolves
  \/ ModelThrows
  \/ \E chunk \in Chunks : StreamChunk(chunk)
  \/ StreamEnd
  \/ DecideTools
  \/ DecideTerminal
  \/ DecideTerminalLegacy
  \/ ExecStart
  \/ ExecDone
  \/ \E result \in Settlements : ToolReturns(result)
  \/ \E result \in Settlements : ToolThrows(result)
  \/ CapCheck

Spec == Init /\ [][Next]_vars

\* runAgentLoopStreaming of backend/agents/agent-loop.ts alone
NextAgents ==
  \/ LoopEnter
  \/ LoopExit
  \/ CreateResolves
  \/ ModelThrows
  \/ \E chunk \in Chunks : StreamChunk(chunk)
  \/ StreamEnd
  \/ DecideTools
  \/ DecideTerminal
  \/ ExecStart
  \/ ExecDone
  \/ \E result \in Settlements : ToolReturns(result)
  \/ \E result \in Settlements : ToolThrows(result)
  \/ CapCheck

InitAgents == InitLoop({"agents"}) /\ ServicesIdle

SpecAgents == InitAgents /\ [][NextAgents]_vars

\* the same runs, for the properties of the event stream
SpecEvents == InitAgents /\ [][NextAgents]_vars

----------------------------------------------------------------------------
(* runAgentLoop of backend/agent-loop.ts: the loop without streaming *)

\* the ids the provider gives the tool calls of one response, by position
CallIds == <<"call_a", "call_b", "call_c", "call_d">>
CallTypes == {"function", "custom"}

\* the tool calls of one response: each has a type, a name and arguments
PlainToolCalls ==
  UNION { [1..n -> [type : CallTypes, name : Names,
                    arguments : {<<"{k}">>}]] : n \in 0..(MaxIndex + 1) }

\* response.choices[0]?.message, or its absence
PlainResponses ==
  {[present |-> FALSE, content |-> <<>>, calls |-> <<>>]}
  \cup {[present |-> TRUE, content |-> c, calls |-> t] :
          c \in {<<>>} \cup ContentFrags, t \in PlainToolCalls}

\* assistantMessage.tool_calls
ResponseToolCalls(calls) ==
  [k \in 1..Len(calls) |->
     [index |-> k - 1, id |-> CallIds[k], type |-> calls[k].type,
      name |-> calls[k].name, arguments |-> calls[k].arguments]]

PlainAssistantMessage(r) ==
  [role |-> "assistant",
   content |-> IF r.content # <<>> THEN r.content ELSE ContentNull,
   tool_calls |-> [k \in 1..Len(r.calls) |->
      [id |-> CallIds[k], type |-> r.calls[k].type, name |-> r.calls[k].name,
       arguments |-> r.calls[k].arguments]],
   tool_call_id |-> NoId]

\* the create() call resolves: no message, tool calls, content, or neither
PlainResponds(r) ==
  /\ pc = "create"
  /\ impl = "plain"
  /\ obs.chunks + Len(r.calls) <= MaxChunks
  /\ IF ~r.present
     THEN /\ Emit(ExceptionEvent(<<"No response from model">>))
          /\ obs' = [obs EXCEPT !.modelInFlight = @ - 1, !.terminal = @ + 1]
          /\ pc' = "cap"
          /\ UNCHANGED <<messages, toolCalls, cursor>>
     ELSE IF Len(r.calls) > 0
     THEN /\ messages' = Append(messages, PlainAssistantMessage(r))
          /\ toolCalls' = ResponseToolCalls(r.calls)
          /\ cursor' = 1
          /\ obs' = [obs EXCEPT !.modelInFlight = @ - 1,
                                !.chunks = @ + Len(r.calls)]
          /\ pc' = "exec"
          /\ UNCHANGED events
     ELSE IF r.content # <<>>
     THEN /\ obs' = [obs EXCEPT !.modelCalls = @ + 1, !.terminal = @ + 1]
          /\ pc' = "final_create"
          /\ UNCHANGED <<messages, events, toolCalls, cursor>>
     ELSE /\ Emit(ContentEvent(Placeholder))
          /\ obs' = [obs EXCEPT !.modelInFlight = @ - 1, !.terminal = @ + 1]
          /\ pc' = "cap"
          /\ UNCHANGED <<messages, toolCalls, cursor>>
  /\ UNCHANGED <<impl, maxIterations, iteration, assistantContent,
                 finishReason, fragLog, execLog, router,
                 chat, telegram, call, oauth, browser, bot>>

\* if (toolCall.type !== "function") continue
ExecSkip ==
  /\ pc = "exec"
  /\ cursor <= Len(toolCalls)
  /\ ~IsFunctionCall(toolCalls[cursor])
  /\ cursor' = cursor + 1
  /\ UNCHANGED <<impl, maxIterations, pc, iteration, messages, events,
                 assistantContent, toolCalls, finishReason, obs, fragLog,
                 execLog, router,
                 chat, telegram, call, oauth, browser, bot>>

\* the second create() call, for the streamed final answer, resolves
FinalCreateResolves ==
  /\ pc = "final_create"
  /\ pc' = "final_stream"
  /\ UNCHANGED <<impl, maxIterations, iteration, messages, events,
                 assistantContent, toolCalls, finishReason, cursor, obs,
                 fragLog, execLog, router,
                 chat, telegram, call, oauth, browser, bot>>

\* one chunk of the final answer's stream
FinalChunk(chunk) ==
  /\ pc = "final_stream"
  /\ obs.chunks < MaxChunks
  /\ IF chunk.content # <<>> THEN Emit(ContentEvent(chunk.content))
     ELSE UNCHANGED events
  /\ obs' = [obs EXCEPT !.chunks = @ + 1]
  /\ UNCHANGED <<impl, maxIterations, pc, iteration, messages,
                 assistantContent, toolCalls, finishReason, cursor, fragLog,
                 execLog, router,
                 chat, telegram, call, oauth, browser, bot>>

\* the final answer's stream is exhausted: break
FinalStreamEnd ==
  /\ pc = "final_stream"
  /\ obs' = [obs EXCEPT !.modelInFlight = @ - 1]
  /\ pc' = "cap"
  /\ UNCHANGED <<impl, maxIterations, iteration, messages, events,
                 assistantContent, toolCalls, finishReason, cursor, fragLog,
                 execLog, router,
                 chat, telegram, call, oauth, browser, bot>>

\* the steps only runAgentLoop takes
NextPlain ==
  \/ \E r \in PlainResponses : PlainResponds(r)
  \/ ExecSkip
  \/ FinalCreateResolves
  \/ \E chunk \in {Chunk(<<>>, <<>>, "null")}
                    \cup {Chunk(c, <<>>, "null") : c \in ContentFrags} :
       FinalChunk(chunk)
  \/ FinalStreamEnd

\* the three loops
InitLoops == InitLoop(Impls \cup {"plain"}) /\ ServicesIdle

NextLoops == Next \/ NextPlain

SpecLoops == InitLoops /\ [][NextLoops]_vars

----------------------------------------------------------------------------
(* Properties of the agent loop *)

ErrorEvents == SelectSeq(events, LAMBDA e : e.type = "error")
ContentEvents == SelectSeq(events, LAMBDA e : e.type = "content")
ToolMessages == SelectSeq(messages, LAMBDA m : m.role = "tool")

\* the position of the nearest assistant message before position p, or 0
AssistantBefore(msgs, p) ==
  LET qs == {q \in 1..(p - 1) : msgs[q].role = "assistant"}
  IN IF qs = {} THEN 0 ELSE CHOOSE q \in qs : \A r \in qs : r <= q

\* the number of tool calls the assistant messages of the run carry
RECURSIVE RequestedCalls(_)
RequestedCalls(msgs) ==
  IF msgs = <<>> THEN 0
  ELSE Len(Head(msgs).tool_calls) + RequestedCalls(Tail(msgs))

\* every model response so far made the loop execute tools, nothing threw
OnlyToolTurns == obs.terminal = 0 /\ obs.thrown = "none"

C2_OneInFlight ==
  /\ obs.modelInFlight + obs.toolInFlight <= 1
  /\ \A k \in 1..Len(execLog) : k < Len(execLog) => execLog[k].settled
  /\ obs.toolInFlight = 1 =>
       /\ Len(execLog) >= 1 /\ ~execLog[Len(execLog)].settled
       /\ Len(ToolMessages) = Len(execLog) - 1
  /\ obs.modelInFlight = 1 =>
       /\ \A k \in 1..Len(execLog) : execLog[k].settled
       /\ Len(ToolMessages) = Len(execLog)
       /\ Len(ToolMessages) = RequestedCalls(messages)

C2_Witness ==
  /\ obs.modelInFlight = 1 /\ iteration = 2
  /\ Len(execLog) = 2 /\ execLog[1].iteration = 1 /\ execLog[2].iteration = 1

\* C3 (as claimed): the tool calls of a turn are executed, and their tool
\* messages appended, in the order of their tool-call indexes, whatever the
\* order in which the deltas arrived.
C3_DeclaredOrder ==
  \A j, k \in 1..Len(execLog) :
    (j < k /\ execLog[j].iteration = execLog[k].iteration)
      => execLog[j].index < execLog[k].index

\* C4: in the list handed to the model every tool message answers a tool call
\* of the nearest assistant message before it.
C4_ToolMessagesCorrelated ==
  pc = "create" =>
    \A p \in 1..Len(messages) :
      messages[p].role = "tool" =>
        LET q == AssistantBefore(messages, p) IN
          /\ q > 0
          /\ \E c \in 1..Len(messages[q].tool_calls) :
               messages[q].tool_calls[c].id = messages[p].tool_call_id

C4_Witness ==
  /\ pc = "create"
  /\ Len(ToolMessages) = 2
  /\ ToolMessages[1].tool_call_id # ToolMessages[2].tool_call_id
  /\ ToolMessages[1].tool_call_id \in Ids

\* C5: the argument text a tool call is executed with is the concatenation,
\* in arrival order, of exactly the fragments tagged with its index.
C5_FragmentReassembly ==
  \A k \in 1..Len(execLog) : execLog[k].text = execLog[k].expected

C5_Witness ==
  \E k \in 1..Len(execLog) : execLog[k].text = <<"x", "{k}">>

\* C6 (as claimed): a run in which the model produced a turn without tool
\* calls, on whatever iteration, ends without an error event.
C6_NoErrorAfterAnswer ==
  (pc = "done" /\ obs.terminal = 1 /\ obs.silentDrop = 0
     /\ obs.thrown = "none")
    => ErrorEvents = <<>>

\* C7 (as claimed): a run that has returned emitted a content event or an
\* error event.
C7_NeverSilent ==
  pc = "done" => (ErrorEvents # <<>> \/ ContentEvents # <<>>)

\* C8 (as claimed): a run whose model invocation failed emitted exactly one
\* error event.
C8_SingleErrorOnModelFailure ==
  (pc = "done" /\ obs.thrown = "model") => Len(ErrorEvents) = 1

Contains(text, token) == \E i \in 1..Len(text) : text[i] = token

ExceptionEvents == SelectSeq(events, LAMBDA e : e.type = "error" /\ e # CapEvent)
ToolResultEvents == SelectSeq(events, LAMBDA e : e.type = "tool_result")

\* C9: executeTool with a name that is not registered settles, without
\* throwing, to success=false with an error containing "Unknown tool"; a
\* result with success=false gives a tool_result event and a tool message
\* and no error event, the remaining tool calls of the turn are executed, and
\* the model is invoked again unless the cap is reached.
C9_UnknownToolIsData ==
  /\ \A n \in (Names \cup {""}) \ toolRegistry :
       \A r \in executeTool(n) :
         ~r.threw /\ ~r.success /\ Contains(r.error, "Unknown tool: ")
  /\ \A k \in 1..Len(execLog) :
       (execLog[k].settled /\ execLog[k].name \notin toolRegistry) =>
         /\ ~execLog[k].result.threw /\ ~execLog[k].result.success
         /\ Contains(execLog[k].result.error, "Unknown tool: ")
  /\ Len(ExceptionEvents) = (IF obs.thrown = "none" THEN 0 ELSE 1)
  /\ obs.thrown = "none" =>
       /\ Len(ToolResultEvents) = Len(ToolMessages)
       /\ \A k \in 1..Len(ToolMessages) :
            /\ execLog[k].settled
            /\ ToolResultEvents[k].success = execLog[k].result.success
            /\ ToolMessages[k].content = formatToolResult(execLog[k].result)
       /\ pc \in {"loop", "create", "stream", "decide", "cap", "done"} =>
            Len(ToolMessages) = RequestedCalls(messages)
       /\ (pc = "done" /\ execLog # <<>>) =>
            \/ obs.modelCalls > execLog[Len(execLog)].iteration
            \/ /\ execLog[Len(execLog)].iteration >= maxIterations
               /\ events[Len(events)] = CapEvent

C9_Witness ==
  /\ pc = "create" /\ iteration = 2 /\ obs.thrown = "none"
  /\ Len(execLog) = 2
  /\ execLog[1].name \notin toolRegistry /\ ~execLog[1].result.success
  /\ execLog[2].iteration = 1 /\ execLog[2].settled
  /\ ErrorEvents = <<>>

\* the assistant messages of the history that carry no tool call
FinalAnswers ==
  SelectSeq(messages, LAMBDA m : m.role = "assistant" /\ m.tool_calls = <<>>)

PlaceholderEvents ==
  SelectSeq(events, LAMBDA e : e = ContentEvent(Placeholder))

\* C13: in backend/agents/agent-loop.ts, after a turn whose stream ended
\* with no accumulated tool call the run has stopped (it is at or past the
\* check that follows the loop, so it invokes the model no more); with
\* buffered content the history ends with the one assistant message that
\* holds it and no placeholder was emitted; with no content nothing was
\* appended and the placeholder "(No response)" was emitted exactly once.
C13_TerminalTurn ==
  (impl = "agents" /\ obs.terminal > 0) =>
    /\ obs.terminal = 1
    /\ pc \in {"cap", "done"}
    /\ obs.modelCalls = iteration /\ obs.modelInFlight = 0
    /\ Len(toolCalls) = 0
    /\ IF assistantContent # <<>>
       THEN /\ Len(FinalAnswers) = 1
            /\ messages[Len(messages)] = Msg("assistant", assistantContent)
            /\ Len(PlaceholderEvents) = 0
       ELSE /\ Len(FinalAnswers) = 0
            /\ messages[Len(messages)].role # "assistant"
            /\ Len(PlaceholderEvents) = 1
            /\ \E k \in 1..Len(events) :
                 /\ events[k] = ContentEvent(Placeholder)
                 /\ \A j \in (k + 1)..Len(events) : events[j] = CapEvent

C13_Witness ==
  /\ impl = "agents" /\ obs.terminal = 1 /\ pc = "done"
  /\ iteration = 2 /\ Len(execLog) > 0
  /\ assistantContent = <<>>
  /\ Len(PlaceholderEvents) = 1

\* C18: once a call of executeTool has rejected, the run has left the loop:
\* the rejected call is the last call made (no later tool call of the turn
\* is executed and the call is not made again), its error was emitted as
\* one error event right after its tool_call event, no tool message was
\* appended for it, and the model was not invoked after the iteration of
\* the rejected call.
C18_ToolThrowAborts ==
  obs.thrown = "tool" =>
    LET last == execLog[Len(execLog)]
        thrown == SelectSeq(events,
                    LAMBDA e : e = ExceptionEvent(last.result.error))
    IN /\ pc \in {"cap", "done"}
       /\ last.settled /\ last.result.threw
       /\ \A k \in 1..(Len(execLog) - 1) : ~execLog[k].result.threw
       /\ Len(thrown) = 1
       /\ \E k \in 2..Len(events) :
            /\ events[k] = ExceptionEvent(last.result.error)
            /\ events[k - 1].type = "tool_call"
            /\ events[k - 1].toolCallId = last.id
            /\ \A j \in (k + 1)..Len(events) : events[j] = CapEvent
       /\ messages[Len(messages)].role \in {"assistant", "tool"}
       /\ Len(SelectSeq(execLog, LAMBDA x : x.iteration = last.iteration))
            = cursor
       /\ obs.modelCalls = last.iteration
       /\ iteration = last.iteration
       /\ obs.modelInFlight = 0 /\ obs.toolInFlight = 0

C18_Witness ==
  /\ obs.thrown = "tool" /\ pc = "done"
  /\ Len(toolCalls) = 2 /\ cursor = 1
  /\ Len(execLog) = 1
  /\ iteration < maxIterations

\* C19: while a stream is read, an id (a name) the accumulator of an index
\* holds is never changed by a later delta for that index, whether the
\* delta carries an id (a name) or omits it.
C19_IdAndNameLatched ==
  [][(pc = "stream" /\ pc' = "stream") =>
       \A k \in 1..Len(toolCalls) :
         /\ Len(toolCalls') >= k
         /\ toolCalls'[k].index = toolCalls[k].index
         /\ toolCalls[k].id # "" => toolCalls'[k].id = toolCalls[k].id
         /\ toolCalls[k].name # "" => toolCalls'[k].name = toolCalls[k].name]_vars

\* the assistant messages that request tool calls, one per tool turn
ToolTurns ==
  SelectSeq(messages, LAMBDA m : m.role = "assistant" /\ m.tool_calls # <<>>)

ToolCallEvents == SelectSeq(events, LAMBDA e : e.type = "tool_call")

\* the only argument texts of the model that are JSON
IsJson(text) == text = <<"{k}">>

\* C20: a tool call whose accumulated argument text is not JSON (the empty
\* text included) is executed with the empty argument object; its tool_call
\* event is emitted, and once it returned its tool_result event is emitted
\* and its tool message appended; the assistant message of its turn keeps
\* the raw argument text; the only error events of the run are those of a
\* thrown exception and of the cap, none for the parse failure.
C20_BadArgumentsDegrade ==
  LET calls == ToolCallEvents
      results == ToolResultEvents
      toolMsgs == ToolMessages
      turns == ToolTurns
  IN
  /\ Len(calls) = Len(execLog)
  /\ Len(ExceptionEvents) = (IF obs.thrown = "none" THEN 0 ELSE 1)
  /\ \A k \in 1..Len(execLog) :
       LET x == execLog[k] IN
       ~IsJson(x.text) =>
         /\ x.args = "{}"
         /\ calls[k].toolCallId = x.id
         /\ calls[k].name = x.name
         /\ (x.settled /\ ~x.result.threw) =>
              /\ \E j \in 1..Len(results) :
                   results[j] =
                     ToolResultEvent([id |-> x.id, name |-> x.name], x.result)
              /\ \E j \in 1..Len(toolMsgs) :
                   /\ toolMsgs[j].tool_call_id = x.id
                   /\ toolMsgs[j].content = formatToolResult(x.result)
         /\ Len(turns) >= x.iteration
         /\ \E j \in 1..Len(turns[x.iteration].tool_calls) :
              /\ turns[x.iteration].tool_calls[j].id = x.id
              /\ turns[x.iteration].tool_calls[j].name = x.name
              /\ turns[x.iteration].tool_calls[j].arguments = x.text

C20_Witness ==
  /\ pc = "done" /\ impl = "agents"
  /\ Len(execLog) = 1
  /\ execLog[1].text = <<"x">> /\ execLog[1].args = "{}"
  /\ execLog[1].name = "bash"
  /\ execLog[1].settled /\ execLog[1].result.success
  /\ Len(ToolMessages) = 1
  /\ Len(ExceptionEvents) = 0

\* the positions in events of the events of the given type, in order
PositionsOf(type) ==
  SelectSeq([p \in 1..Len(events) |-> p], LAMBDA p : events[p].type = type)

IterationPositions == PositionsOf("iteration")

\* the events of iteration k: from its iteration event to the next one
EventsOfIteration(k) ==
  LET ps == IterationPositions
      to == IF k < Len(ps) THEN ps[k + 1] - 1 ELSE Len(events)
  IN SubSeq(events, ps[k], to)

\* the texts of the content events among es, concatenated
ContentOfEvents(es) ==
  LET cs == SelectSeq(es, LAMBDA e : e.type = "content")
  IN Concat([k \in 1..Len(cs) |-> cs[k].content])

AssistantMessages == SelectSeq(messages, LAMBDA m : m.role = "assistant")

ToolEvents ==
  SelectSeq(events, LAMBDA e : e.type \in {"tool_call", "tool_result"})

\* iteration events are numbered 1..iteration, at most maxIterations, and
\* every event but the closing cap error comes after an iteration event
IterationsNumbered ==
  LET ps == IterationPositions IN
    /\ Len(ps) = iteration
    /\ Len(ps) <= maxIterations
    /\ \A k \in 1..Len(ps) : events[ps[k]].iteration = k
    /\ (events # <<>> /\ events # <<CapEvent>>) => events[1].type = "iteration"

\* the tool_call event of the j-th executed call lies in the events of the
\* iteration that executed it
ToolEventsInTheirIteration ==
  LET ps == IterationPositions
      cs == PositionsOf("tool_call")
  IN \A j \in 1..Len(execLog) :
       LET k == execLog[j].iteration
       IN /\ ps[k] < cs[j]
          /\ k < Len(ps) => cs[j] < ps[k + 1]

\* tool events alternate tool_call, tool_result, each result carrying the
\* id of the call before it, one tool_call per executed call
ToolEventsAlternate ==
  LET T == ToolEvents IN
    /\ Len(ToolCallEvents) = Len(execLog)
    /\ \A q \in 1..Len(T) :
         /\ T[q].type = IF q % 2 = 1 THEN "tool_call" ELSE "tool_result"
         /\ q % 2 = 0 => T[q].toolCallId = T[q - 1].toolCallId
    /\ \A j \in 1..Len(execLog) : T[2 * j - 1].toolCallId = execLog[j].id

\* once a turn without tool calls has ended the run, its iteration holds
\* no tool event and nothing but the cap error follows
NoToolEventsInTerminalTurn ==
  obs.terminal > 0 =>
    /\ pc \in {"cap", "done"}
    /\ LET es == EventsOfIteration(iteration) IN
         \A q \in 1..Len(es) : es[q].type \notin {"tool_call", "tool_result"}

\* C22 as stated: iteration events are numbered 1..n, n <= maxIterations,
\* each opening its iteration; every executed tool call that has settled
\* has one tool_call event followed by one tool_result event with its id,
\* result k before call k+1; no tool event after a terminal turn's content.
C22_EveryCallHasResult ==
  /\ IterationsNumbered
  /\ ToolEventsInTheirIteration
  /\ ToolEventsAlternate
  /\ NoToolEventsInTerminalTurn
  /\ LET T == ToolEvents IN
       \A j \in 1..Len(execLog) :
         execLog[j].settled =>
           /\ Len(T) >= 2 * j
           /\ T[2 * j].toolCallId = execLog[j].id

\* C22, amended: as above, but the tool_result event follows exactly for
\* the executed calls whose executor returned; a call whose executor threw
\* has its tool_call event followed by the error event instead, and is the
\* last tool event of the run.
C22_EventOrder ==
  /\ IterationsNumbered
  /\ ToolEventsInTheirIteration
  /\ ToolEventsAlternate
  /\ NoToolEventsInTerminalTurn
  /\ LET T == ToolEvents
         cs == PositionsOf("tool_call")
     IN \A j \in 1..Len(execLog) :
          /\ (execLog[j].settled /\ ~execLog[j].result.threw) =>
               /\ Len(T) >= 2 * j
               /\ T[2 * j].toolCallId = execLog[j].id
               /\ T[2 * j].name = execLog[j].name
          /\ (execLog[j].settled /\ execLog[j].result.threw) =>
               /\ Len(T) = 2 * j - 1
               /\ j = Len(execLog)
               /\ Len(events) > cs[j]
               /\ events[cs[j] + 1] = ExceptionEvent(execLog[j].result.error)

\* two calls executed in one turn, both returned, the run ended
C22_Witness ==
  /\ pc = "done"
  /\ Len(execLog) = 2
  /\ \A j \in 1..2 : execLog[j].settled /\ ~execLog[j].result.threw
  /\ execLog[1].id # execLog[2].id
  /\ Len(ToolEvents) = 4

\* the index of the last assistant message of the history, 0 if none
LastAssistant ==
  LET ps == {p \in 1..Len(messages) : messages[p].role = "assistant"}
  IN IF ps = {} THEN 0 ELSE CHOOSE p \in ps : \A q \in ps : q <= p

\* C24: whenever a loop (streaming or runAgentLoop) invokes the model after
\* a tool-calling turn, the tool calls listed in the last assistant message
\* are answered one for one: for each id it lists there are as many tool
\* messages with that id after it as calls it lists with that id, whatever
\* the type of the call.
C24_ToolCallsAnswered ==
  (pc = "create" /\ iteration > 1) =>
    LET a == LastAssistant
        calls == messages[a].tool_calls
    IN /\ a > 0
       /\ Len(calls) > 0
       /\ \A k \in 1..Len(calls) :
            Cardinality({p \in (a + 1)..Len(messages) :
                           /\ messages[p].role = "tool"
                           /\ messages[p].tool_call_id = calls[k].id})
            = Cardinality({j \in 1..Len(calls) : calls[j].id = calls[k].id})

----------------------------------------------------------------------------
(* Skill router: selectSkills of backend/agents/context.ts *)

Skill(folder, name) == [folderName |-> folder, name |-> name]

AllSkills ==
  { Skill("google", "gog"), Skill("notion", "notion"),
    Skill("linkedin", "linkedin-cli") }

\* the catalogs: lists of distinct skills
Catalogs ==
  UNION { {c \in [1..n -> AllSkills] : \A i, j \in 1..n : i # j => c[i] # c[j]} :
          n \in 0..MaxSkills }

UserMessageLists ==
  { <<>>,
    << [role |-> "user", content |-> "u1"] >>,
    << [role |-> "user", content |-> "u1"],
       [role |-> "assistant", content |-> "a1"],
       [role |-> "user", content |-> "u2"] >>,
    << [role |-> "user", content |-> "u1"], [role |-> "user", content |-> "u2"],
       [role |-> "user", content |-> "u3"], [role |-> "user", content |-> "u4"] >> }

\* the texts the router's model may answer with, as token sequences; a name
\* token stands for that name as a JSON string
RouterTexts ==
  { <<>>, <<" ">>,
    <<"not", " ", "json">>,
    <<"[", "]">>, <<" ", "[", "]", "\n">>,
    <<"[", "gog", "]">>, <<"[", "google", "]">>, <<"[", "github", "]">>,
    <<"[", "gog", ",", "notion", "]">>, <<"[", "notion", ",", "gog", "]">>,
    <<"[", "gog", ",", "]">>, <<"[", "gog">>,
    <<"{", "}">>, <<"null">>, <<"gog">> }

JsonNames == {"gog", "google", "github", "notion", "linkedin-cli", "linkedin"}

ParseError == <<"<error>">>

\* the elements of a comma-separated list of names, or ParseError
RECURSIVE ParseElements(_)
ParseElements(t) ==
  IF Len(t) = 1 /\ t[1] \in JsonNames THEN <<t[1]>>
  ELSE IF Len(t) >= 3 /\ t[1] \in JsonNames /\ t[2] = ","
       THEN LET rest == ParseElements(SubSeq(t, 3, Len(t)))
            IN IF rest = ParseError THEN ParseError ELSE <<t[1]>> \o rest
       ELSE ParseError

\* JSON.parse of a text
JsonParse(t) ==
  IF t = <<"null">> \/ t = <<"{", "}">> \/ (Len(t) = 1 /\ t[1] \in JsonNames)
  THEN [ok |-> TRUE, isArray |-> FALSE, items |-> <<>>]
  ELSE IF t = <<"[", "]">>
  THEN [ok |-> TRUE, isArray |-> TRUE, items |-> <<>>]
  ELSE IF Len(t) >= 3 /\ t[1] = "[" /\ t[Len(t)] = "]"
          /\ ParseElements(SubSeq(t, 2, Len(t) - 1)) # ParseError
  THEN [ok |-> TRUE, isArray |-> TRUE,
        items |-> ParseElements(SubSeq(t, 2, Len(t) - 1))]
  ELSE [ok |-> FALSE, isArray |-> FALSE, items |-> <<>>]

\* the names the router's answer selects: content?.trim() || "[]", parsed,
\* with [] for a text that does not parse or is not an array
SelectedNamesAllOnBadText(catalog, content) ==
  LET text == IF Trim(content) = <<>> THEN <<"[", "]">> ELSE Trim(content)
      parsed == JsonParse(text)
  IN IF parsed.ok /\ parsed.isArray THEN parsed.items
     ELSE [k \in 1..Len(catalog) |-> catalog[k].name]

SelectedNames(catalog, content) ==
  LET text == IF Trim(content) = <<>> THEN <<"[", "]">> ELSE Trim(content)
      parsed == JsonParse(text)
  IN IF parsed.ok /\ parsed.isArray THEN parsed.items ELSE <<>>

\* availableSkills.filter(s => names.includes(s.meta.name) ||
\*                             names.includes(s.folderName))
FilterSkills(catalog, names) ==
  SelectSeq(catalog, LAMBDA sk :
    Contains(names, sk.name) \/ Contains(names, sk.folderName))

RouterFallbackNone(catalog) == <<>>

\* the catch block of the router's request: return availableSkills
RouterFallback(catalog) == catalog

\* userMessages.filter(user).slice(-3).map(content)
RecentMessages(userMessages) ==
  LET users == SelectSeq(userMessages, LAMBDA m : m.role = "user")
      from == IF Len(users) > 3 THEN Len(users) - 2 ELSE 1
  IN [k \in 1..(Len(users) - from + 1) |-> users[from + k - 1].content]

LoopOff ==
  /\ impl = "agents" /\ maxIterations = 0 /\ pc = "off" /\ iteration = 0
  /\ messages = <<>> /\ events = <<>> /\ assistantContent = <<>>
  /\ toolCalls = <<>> /\ finishReason = "null" /\ cursor = 0
  /\ obs = [modelCalls |-> 0, modelInFlight |-> 0, toolInFlight |-> 0,
            chunks |-> 0, thrown |-> "none", terminal |-> 0,
            silentDrop |-> 0]
  /\ fragLog = <<>> /\ execLog = <<>>

InitRouter ==
  /\ LoopOff
  /\ chat = ChatIdle /\ telegram = TelegramIdle /\ call = CallIdle
  /\ ServersIdle
  /\ \E c \in Catalogs, u \in UserMessageLists :
       router = [pc |-> "called", availableSkills |-> c, userMessages |-> u,
                 prompt |-> <<>>, requests |-> 0, answer |-> <<"none">>,
                 outcome |-> "none", result |-> <<>>]

\* the call up to the request: return [] for an empty catalog, else build the
\* prompt and send it
RouterBegin ==
  /\ router.pc = "called"
  /\ router' =
       IF Len(router.availableSkills) = 0
       THEN [router EXCEPT !.pc = "returned", !.outcome = "returned",
                           !.result = <<>>]
       ELSE [router EXCEPT !.pc = "request", !.requests = @ + 1,
               !.prompt = << [k \in 1..Len(router.availableSkills) |->
                                router.availableSkills[k].name],
                             RecentMessages(router.userMessages) >>]
  /\ UNCHANGED <<loopVars, chat, telegram, call, oauth, browser, bot>>

\* the request succeeds with a message of the given content
RouterAnswers(content) ==
  /\ router.pc = "request"
  /\ router' = [router EXCEPT !.pc = "returned", !.outcome = "returned",
                  !.answer = content,
                  !.result = FilterSkills(router.availableSkills,
                               SelectedNames(router.availableSkills, content))]
  /\ UNCHANGED <<loopVars, chat, telegram, call, oauth, browser, bot>>

\* the request throws
RouterRequestThrows ==
  /\ router.pc = "request"
  /\ router' = [router EXCEPT !.pc = "returned", !.outcome = "returned",
                  !.answer = <<"threw">>,
                  !.result = RouterFallback(router.availableSkills)]
  /\ UNCHANGED <<loopVars, chat, telegram, call, oauth, browser, bot>>

NextRouter ==
  \/ RouterBegin
  \/ \E content \in RouterTexts : RouterAnswers(content)
  \/ RouterRequestThrows

SpecRouter == InitRouter /\ [][NextRouter]_vars

\* a text JSON.parse rejects, or whose value is not an array
BadRouterText(content) ==
  content \in { <<"not", " ", "json">>, <<"[", "gog", ",", "]">>,
                <<"[", "gog">>, <<"{", "}">>, <<"null">>, <<"gog">> }

\* C10: for a non-empty catalog selectSkills returns the whole catalog when
\* the router's request throws and the empty list when the answer is not
\* parseable JSON or is not an array; it returns in both cases.
C10_RouterFallbackAsymmetry ==
  (router.pc = "returned" /\ Len(router.availableSkills) > 0) =>
    /\ router.outcome = "returned"
    /\ router.answer = <<"threw">> => router.result = router.availableSkills
    /\ BadRouterText(router.answer) => router.result = <<>>

C10_Witness ==
  /\ router.pc = "returned" /\ Len(router.availableSkills) = 2
  /\ router.answer = <<"not", " ", "json">> /\ router.result = <<>>

----------------------------------------------------------------------------
(* Context assembler: buildToolsMessage, buildMessages and                 *)
(* ContextManager.buildContextMessages of backend/agents/context.ts        *)

\* s.meta.name.toUpperCase()
ToUpperCase(name) ==
  CASE name = "gog" -> "GOG"
    [] name = "notion" -> "NOTION"
    [] name = "linkedin-cli" -> "LINKEDIN-CLI"
    [] OTHER -> name

\* s.content: the documentation body of a skill
SkillContent(sk) == <<"# ", sk.folderName, "\n", "how to use ", sk.name>>

ToolsHeader ==
  <<"# Available Tools\n\n",
    "You now have access to the following tools. ",
    "Use them to help the user with their request:\n\n">>

\* `## ${s.meta.name.toUpperCase()}\n\n${s.content}`
SkillDoc(sk) == <<"## ", ToUpperCase(sk.name), "\n\n">> \o SkillContent(sk)

\* docs.join("\n\n---\n\n")
RECURSIVE JoinDocs(_)
JoinDocs(docs) ==
  IF docs = <<>> THEN <<>>
  ELSE IF Len(docs) = 1 THEN docs[1]
  ELSE docs[1] \o <<"\n\n---\n\n">> \o JoinDocs(Tail(docs))

\* null, as the value of toolsMessage
NoToolsMessage == <<"<null>">>

buildToolsMessage(selectedSkills) ==
  IF Len(selectedSkills) = 0 THEN NoToolsMessage
  ELSE ToolsHeader
       \o JoinDocs([k \in 1..Len(selectedSkills) |-> SkillDoc(selectedSkills[k])])

\* if (toolsMessage): neither null nor the empty string
Truthy(text) == text # NoToolsMessage /\ text # <<>>

\* buildMessages, were it to push the tools message after the history
buildMessagesToolsLast(baseSystemPrompt, toolsMessage, conversationHistory) ==
  << Msg("system", baseSystemPrompt) >>
  \o conversationHistory
  \o (IF Truthy(toolsMessage) THEN << Msg("system", toolsMessage) >> ELSE <<>>)

buildMessages(baseSystemPrompt, toolsMessage, conversationHistory) ==
  << Msg("system", baseSystemPrompt) >>
  \o (IF Truthy(toolsMessage) THEN << Msg("system", toolsMessage) >> ELSE <<>>)
  \o conversationHistory

\* ContextManager.buildContextMessages(selectedSkills, conversationHistory):
\* the method has these two parameters and no other
buildContextMessages(baseSystemPrompt, selectedSkills, conversationHistory) ==
  buildMessages(baseSystemPrompt, buildToolsMessage(selectedSkills),
                conversationHistory)

----------------------------------------------------------------------------
(* The /api/chat handler of backend/index.ts *)

\* getSystemContext(): the text with the current time
SystemContext == <<"## System Context\n\n", "- **Current Time**: ", "now">>

\* the contents of system-prompt.txt
BasePrompts == { <<"base">>, <<>> }

\* body.messages as the list handed on as conversation history
ChatHistory(body) ==
  [k \in 1..Len(body) |-> Msg(body[k].role, <<body[k].content>>)]

\* DEFAULT_CONFIG.maxIterations, scaled to the bound of the model
ChatMaxIterations == MaxIter

\* a request arrives: the handler calls selectSkillsForMessages(messages)
InitChat(catalogs, bodies, bases) ==
  /\ LoopOff
  /\ telegram = TelegramIdle /\ call = CallIdle
  /\ ServersIdle
  /\ \E c \in catalogs, u \in bodies, b \in bases :
       /\ router = [pc |-> "called", availableSkills |-> c, userMessages |-> u,
                    prompt |-> <<>>, requests |-> 0, answer |-> <<"none">>,
                    outcome |-> "none", result |-> <<>>]
       /\ chat = [pc |-> "select", base |-> b, body |-> u,
                  selectedSkills |-> <<>>, history |-> <<>>,
                  context |-> <<>>, doneAt |-> -1, closed |-> FALSE]

\* selectSkills has returned: build the messages, open the response stream
\* and call runAgentLoopStreaming. systemContext is passed as a third
\* argument, for which buildContextMessages has no parameter.
ChatBuild ==
  /\ chat.pc = "select"
  /\ router.pc = "returned"
  /\ LET selectedSkills == router.result
         history == ChatHistory(chat.body)
         systemContext == SystemContext
         messagesWithContext ==
           buildContextMessages(chat.base, selectedSkills, history)
     IN /\ chat' = [chat EXCEPT !.pc = "running",
                                !.selectedSkills = selectedSkills,
                                !.history = history,
                                !.context = messagesWithContext]
        /\ messages' = messagesWithContext
  /\ router' = RouterIdle
  /\ pc' = "loop"
  /\ maxIterations' = ChatMaxIterations
  /\ UNCHANGED <<impl, iteration, events, assistantContent, toolCalls,
                 finishReason, cursor, obs, fragLog, execLog, telegram,
                 call, oauth, browser, bot>>

NextContext == NextRouter \/ ChatBuild

\* the handler up to the call of the loop, for every catalog, body and prompt
InitContext == InitChat(Catalogs, UserMessageLists, BasePrompts)

SpecContext == InitContext /\ [][NextContext]_vars

OccursAt(text, sub, p) ==
  /\ p >= 1 /\ p + Len(sub) - 1 <= Len(text)
  /\ SubSeq(text, p, p + Len(sub) - 1) = sub

\* the texts of docs occur in text one after the other, from position `from`
RECURSIVE OccurInOrder(_, _, _)
OccurInOrder(text, docs, from) ==
  \/ docs = <<>>
  \/ \E p \in from..Len(text) :
       /\ OccursAt(text, Head(docs), p)
       /\ OccurInOrder(text, Tail(docs), p + Len(Head(docs)))

\* C11: the assembled list starts with the base system message; with no
\* skill selected the history follows at once, with at least one a second
\* system message follows that holds every selected skill's documentation
\* verbatim in selection order, then the history unmodified; the length is
\* 1 + (1 if any skill is selected) + length(history).
C11_AssembledMessages ==
  chat.pc = "running" =>
    LET m == chat.context
        sel == chat.selectedSkills
        h == chat.history
        docs == [k \in 1..Len(sel) |-> SkillContent(sel[k])]
    IN /\ Len(m) = 1 + (IF Len(sel) > 0 THEN 1 ELSE 0) + Len(h)
       /\ m[1] = Msg("system", chat.base)
       /\ Len(sel) = 0 => SubSeq(m, 2, Len(m)) = h
       /\ Len(sel) > 0 =>
            /\ m[2].role = "system"
            /\ OccurInOrder(m[2].content, docs, 1)
            /\ SubSeq(m, 3, Len(m)) = h
       /\ messages = m

C11_Witness ==
  /\ chat.pc = "running"
  /\ Len(chat.selectedSkills) = 2
  /\ Len(chat.history) = 3
  /\ Len(chat.context) = 5

\* C14: the message list handed to the agent loop holds the system-context
\* text as a system message of its own, apart from the base message and the
\* skills message.
C14_SystemContextInjected ==
  chat.pc = "running" =>
    \E i \in 2..Len(messages) :
      messages[i] = Msg("system", SystemContext)

----------------------------------------------------------------------------
(* The response stream of /api/chat: ReadableStream.start *)

\* `data: ${JSON.stringify(data)}\n\n` and `data: [DONE]\n\n`
Frame(e) == [kind |-> "event", event |-> e]
DoneFrame == [kind |-> "done", event |-> Ev("none")]

Frames(es) == [k \in 1..Len(es) |-> Frame(es[k])]

\* what controller.enqueue was given, in order: sendEvent enqueues each event
\* as it is emitted, and chat.doneAt is the number of events enqueued before
\* the sentinel
ResponseStream ==
  IF chat.doneAt < 0 THEN Frames(events)
  ELSE Frames(SubSeq(events, 1, chat.doneAt)) \o <<DoneFrame>>
       \o Frames(SubSeq(events, chat.doneAt + 1, Len(events)))

\* a statement of runAgentLoopStreaming outside its try block throws: the
\* promise the handler awaits rejects
ChatLoopRejects ==
  /\ chat.pc = "running"
  /\ pc = "loop"
  /\ pc' = "rejected"
  /\ UNCHANGED <<impl, maxIterations, iteration, messages, events,
                 assistantContent, toolCalls, finishReason, cursor, obs,
                 fragLog, execLog, router, chat, telegram, call, oauth, browser, bot>>

ChatLoopSettledNotAwaited == TRUE

\* `await runAgentLoopStreaming(...)` has settled
ChatLoopSettled == pc \in {"done", "rejected"}

\* what follows the await: the catch block sends an error event for a
\* rejection; then the sentinel is enqueued and the stream closed
ChatFinish ==
  /\ chat.pc = "running"
  /\ ChatLoopSettled
  /\ IF pc = "rejected" THEN Emit(ExceptionEvent(<<"escaped">>))
     ELSE UNCHANGED events
  /\ chat' = [chat EXCEPT !.pc = "closed", !.doneAt = Len(events'),
                          !.closed = TRUE]
  /\ UNCHANGED <<impl, maxIterations, pc, iteration, messages,
                 assistantContent, toolCalls, finishReason, cursor, obs,
                 fragLog, execLog, router, telegram, call, oauth, browser, bot>>

NextChat ==
  \/ RouterBegin
  \/ ChatBuild
  \/ NextAgents
  \/ ChatLoopRejects
  \/ ChatFinish

\* one request, served with an empty skills directory: selectSkills returns
\* [] without asking the router
InitRequest ==
  InitChat({<<>>}, {<< [role |-> "user", content |-> "u1"] >>}, {<<"base">>})

SpecChat == InitRequest /\ [][NextChat]_vars

DoneFrames == SelectSeq(ResponseStream, LAMBDA f : f.kind = "done")

----------------------------------------------------------------------------
(* formatToolResult of backend/tools.ts, called on its own *)

\* texts of words and whitespace
Texts ==
  UNION { [1..n -> {"a", " ", "\n"}] : n \in 0..MaxText }

\* the ToolResult values handed to formatToolResult
ToolResults ==
  [threw : {FALSE}, success : BOOLEAN, output : Texts, error : Texts]

InitFormat ==
  /\ LoopOff
  /\ router = RouterIdle /\ chat = ChatIdle /\ telegram = TelegramIdle
  /\ ServersIdle
  /\ \E r \in ToolResults :
       call = [pc |-> "called", fn |-> "formatToolResult", arg |-> r,
               result |-> <<>>]

FormatReturns ==
  /\ call.pc = "called"
  /\ call.fn = "formatToolResult"
  /\ call' = [call EXCEPT !.pc = "returned",
                          !.result = formatToolResult(call.arg)]
  /\ UNCHANGED <<loopVars, router, chat, telegram, oauth, browser, bot>>

SpecFormat == InitFormat /\ [][FormatReturns]_vars

AllWhitespace(s) == \A k \in 1..Len(s) : s[k] \in {" ", "\n"}

\* t is s without its leading and trailing whitespace
IsTrimmed(t, s) ==
  /\ t = <<>> \/ (t[1] \notin {" ", "\n"} /\ t[Len(t)] \notin {" ", "\n"})
  /\ \E i \in 0..Len(s), j \in 0..Len(s) :
       /\ i + Len(t) + j = Len(s)
       /\ AllWhitespace(SubSeq(s, 1, i))
       /\ SubSeq(s, i + 1, i + Len(t)) = t
       /\ AllWhitespace(SubSeq(s, i + Len(t) + 1, Len(s)))

\* C12: formatToolResult returns exactly result.output when success is true;
\* when success is false it returns "Error: " + error + newline + output
\* without its leading and trailing whitespace, so that with an empty output
\* the result ends with the error text and not with a newline.
C12_FormatToolResult ==
  (call.pc = "returned" /\ call.fn = "formatToolResult") =>
    LET r == call.arg
        full == <<"Error:", " ">> \o r.error \o <<"\n">> \o r.output
    IN IF r.success THEN call.result = r.output
       ELSE /\ IsTrimmed(call.result, full)
            /\ r.output = <<>> =>
                 /\ call.result[Len(call.result)] # "\n"
                 /\ (r.error # <<>> /\ ~AllWhitespace(<<r.error[Len(r.error)]>>))
                      => call.result = <<"Error:", " ">> \o r.error

C12_Witness ==
  /\ call.pc = "returned" /\ call.fn = "formatToolResult"
  /\ ~call.arg.success
  /\ call.arg.output = <<>>
  /\ call.arg.error = <<"a", "a">>
  /\ call.result = <<"Error:", " ", "a", "a">>

----------------------------------------------------------------------------
(* TelegramService of backend/telegram.ts: start, stop and pollLoop *)

Tokens == {"A", "B"}
NoToken == "null"
NoLoop == 0                     \* pollLoopPromise: null

\* the service after construction; loops and calls are the poll loops
\* started and the start/stop calls made so far
TelegramInit ==
  [token |-> NoToken, currentToken |-> NoToken, polling |-> FALSE,
   stopping |-> FALSE, pollLoopPromise |-> NoLoop, loops |-> <<>>,
   calls |-> <<>>]

InitTelegram ==
  /\ LoopOff
  /\ router = RouterIdle /\ chat = ChatIdle /\ call = CallIdle
  /\ ServersIdle
  /\ telegram = TelegramInit

\* while (this.polling && this.token === currentToken) { if (this.stopping)
\* break; ...: does the loop that captured `token` go round once more
PollContinues(tg, token) ==
  tg.polling /\ tg.token = token /\ ~tg.stopping

\* the body of start after the stop: set the fields and call pollLoop, which
\* runs up to its first getUpdates request. prev is the loop the call waited
\* for in stop (NoLoop if none)
BeginPolling(tg, token, prev) ==
  [tg EXCEPT !.token = token, !.currentToken = token, !.polling = TRUE,
             !.stopping = FALSE,
             !.pollLoopPromise = Len(tg.loops) + 1,
             !.loops = Append(tg.loops,
                [token |-> token, pc |-> "fetch", prev |-> prev,
                 prevExited |-> IF prev = NoLoop THEN TRUE
                                ELSE tg.loops[prev].pc = "exited"])]

\* stop up to its await: this.stopping = true; this.polling = false
StopBegins(tg) == [tg EXCEPT !.stopping = TRUE, !.polling = FALSE]

\* stop after its await: pollLoopPromise = null; currentToken = null;
\* stopping = false
StopEnds(tg) ==
  [tg EXCEPT !.pollLoopPromise = NoLoop, !.currentToken = NoToken,
             !.stopping = FALSE]

TgCall(op, token, at, loop) ==
  [op |-> op, token |-> token, pc |-> at, loop |-> loop]

\* start(token) is called and runs up to its first await or its return
TgStart(token) ==
  /\ Len(telegram.calls) < MaxCalls
  /\ telegram' =
       IF telegram.currentToken = token /\ telegram.polling
       THEN [telegram EXCEPT !.calls =
               Append(@, TgCall("start", token, "returned", NoLoop))]
       ELSE IF telegram.polling
       THEN IF telegram.pollLoopPromise # NoLoop
            THEN [StopBegins(telegram) EXCEPT !.calls =
                    Append(@, TgCall("start", token, "race",
                                     telegram.pollLoopPromise))]
            ELSE [StopEnds(StopBegins(telegram)) EXCEPT !.calls =
                    Append(@, TgCall("start", token, "sleep", NoLoop))]
       ELSE [BeginPolling(telegram, token, NoLoop) EXCEPT !.calls =
               Append(@, TgCall("start", token, "returned", NoLoop))]
  /\ UNCHANGED <<loopVars, router, chat, call, oauth, browser, bot>>

\* stop() is called and runs up to its await or its return
TgStop ==
  /\ Len(telegram.calls) < MaxCalls
  /\ telegram' =
       IF ~telegram.polling
       THEN [telegram EXCEPT !.calls =
               Append(@, TgCall("stop", NoToken, "returned", NoLoop))]
       ELSE IF telegram.pollLoopPromise # NoLoop
       THEN [StopBegins(telegram) EXCEPT !.calls =
               Append(@, TgCall("stop", NoToken, "race",
                                telegram.pollLoopPromise))]
       ELSE [StopEnds(StopBegins(telegram)) EXCEPT !.calls =
               Append(@, TgCall("stop", NoToken, "returned", NoLoop))]
  /\ UNCHANGED <<loopVars, router, chat, call, oauth, browser, bot>>

\* Promise.race([pollLoopPromise, sleep(5000)]) settles: when loop
\* telegram.calls[c].loop has exited, or when the five seconds are over,
\* which a getUpdates request (timeout=30) or a retry sleep can outlast
RaceSettles(c) ==
  \/ telegram.loops[telegram.calls[c].loop].pc = "exited"
  \/ telegram.loops[telegram.calls[c].loop].pc \in {"fetch", "sleep"}

\* a stop waiting in the race goes on: the fields are reset; a start then
\* sleeps one second, a stop returns
TgStopResumes(c) ==
  /\ c \in 1..Len(telegram.calls)
  /\ telegram.calls[c].pc = "race"
  /\ RaceSettles(c)
  /\ telegram' =
       [StopEnds(telegram) EXCEPT !.calls[c].pc =
          IF telegram.calls[c].op = "start" THEN "sleep" ELSE "returned"]
  /\ UNCHANGED <<loopVars, router, chat, call, oauth, browser, bot>>

\* sleep(1000) of start is over: the new poll loop is started
TgStartResumes(c) ==
  /\ c \in 1..Len(telegram.calls)
  /\ telegram.calls[c].pc = "sleep"
  /\ telegram' =
       [BeginPolling(telegram, telegram.calls[c].token, telegram.calls[c].loop)
          EXCEPT !.calls[c].pc = "returned"]
  /\ UNCHANGED <<loopVars, router, chat, call, oauth, browser, bot>>

FetchOutcomes == {"updates", "error", "throws"}

\* the getUpdates request of loop l settles: with updates (handled, then the
\* while condition), with an API error (sleep, then continue) or by throwing
\* (break when stopping or the token changed, else sleep)
PollFetchSettles(l, outcome) ==
  /\ l \in 1..Len(telegram.loops)
  /\ telegram.loops[l].pc = "fetch"
  /\ telegram' = [telegram EXCEPT !.loops[l].pc =
       CASE outcome = "updates" ->
              IF PollContinues(telegram, telegram.loops[l].token)
              THEN "fetch" ELSE "exited"
         [] outcome = "error" -> "sleep"
         [] OTHER ->
              IF telegram.stopping \/ telegram.token # telegram.loops[l].token
              THEN "exited" ELSE "sleep"]
  /\ UNCHANGED <<loopVars, router, chat, call, oauth, browser, bot>>

\* the sleep of loop l is over: the while condition is evaluated
PollSleepEnds(l) ==
  /\ l \in 1..Len(telegram.loops)
  /\ telegram.loops[l].pc = "sleep"
  /\ telegram' = [telegram EXCEPT !.loops[l].pc =
       IF PollContinues(telegram, telegram.loops[l].token)
       THEN "fetch" ELSE "exited"]
  /\ UNCHANGED <<loopVars, router, chat, call, oauth, browser, bot>>

NextTelegram ==
  \/ \E token \in Tokens : TgStart(token)
  \/ TgStop
  \/ \E c \in 1..MaxCalls : TgStopResumes(c)
  \/ \E c \in 1..MaxCalls : TgStartResumes(c)
  \/ \E l \in 1..MaxCalls, outcome \in FetchOutcomes :
       PollFetchSettles(l, outcome)
  \/ \E l \in 1..MaxCalls : PollSleepEnds(l)

SpecTelegram == InitTelegram /\ [][NextTelegram]_vars

\* C16: a poll loop that start began after it stopped a running loop begins
\* only when that previous loop has exited, also when the previous loop is
\* blocked in a long-poll request that outlasts the wait of stop.
C16_PreviousLoopExited ==
  \A l \in 1..Len(telegram.loops) :
    telegram.loops[l].prev # NoLoop => telegram.loops[l].prevExited

\* C17: whatever the start and stop calls and their interleaving, no two
\* poll loops have a getUpdates request in flight for the same bot token.
C17_OnePollerPerToken ==
  \A l1, l2 \in 1..Len(telegram.loops) :
    (l1 # l2 /\ telegram.loops[l1].pc = "fetch"
             /\ telegram.loops[l2].pc = "fetch")
      => telegram.loops[l1].token # telegram.loops[l2].token

----------------------------------------------------------------------------
(* One call of pollLoop and its retry delay: backend/telegram.ts *)

\* let retryDelay = 1000; const maxRetryDelay = 60000; and the fixed wait
\* after a 409/Conflict answer
initialRetryDelay == 1000
maxRetryDelay == 60000
conflictDelay == 5000

\* retryDelay * 2, were it not capped
nextRetryDelayUncapped(retryDelay) == retryDelay * 2

\* Math.min(retryDelay * 2, maxRetryDelay)
nextRetryDelay(retryDelay) ==
  IF retryDelay * 2 < maxRetryDelay THEN retryDelay * 2 ELSE maxRetryDelay

\* pollLoop as start calls it: currentToken is the token, retryDelay 1000,
\* and the first getUpdates request is in flight; last, before, sleepFor and
\* slept record the last outcome, the delay before it, the time slept for
\* it, and whether the loop has slept since
PollLoopInit(token) ==
  [pc |-> "fetch", fn |-> "pollLoop", token |-> token,
   currentToken |-> token, polling |-> TRUE, stopping |-> FALSE,
   retryDelay |-> initialRetryDelay, last |-> "none",
   before |-> initialRetryDelay, sleepFor |-> 0, slept |-> FALSE]

InitPoll ==
  /\ LoopOff
  /\ router = RouterIdle /\ chat = ChatIdle /\ telegram = TelegramIdle
  /\ ServersIdle
  /\ \E token \in Tokens : call = PollLoopInit(token)

PollOutcomes == {"updates", "conflict", "error", "throws"}

\* the catch block and the two error branches: double the delay, sleep
PollBacksOff(loop, outcome) ==
  [loop EXCEPT !.pc = "sleep", !.last = outcome, !.before = loop.retryDelay,
               !.retryDelay = nextRetryDelay(loop.retryDelay),
               !.sleepFor = nextRetryDelay(loop.retryDelay),
               !.slept = FALSE]

\* the while condition of the loop, read after a step
PollGoesOn(loop) ==
  IF PollContinues(loop, loop.currentToken) THEN "fetch" ELSE "exited"

\* the getUpdates request settles: with updates (the delay is reset, the
\* updates are handed to handleMessage, then the while condition), with a
\* 409/Conflict answer (sleep 5000), with another API error (back off) or by
\* throwing (break when stopping or the token changed, else back off)
PollLoopFetchSettles(outcome) ==
  /\ call.pc = "fetch"
  /\ call' =
       CASE outcome = "updates" ->
              [call EXCEPT !.retryDelay = initialRetryDelay,
                           !.last = outcome, !.slept = FALSE,
                           !.pc = PollGoesOn(call)]
         [] outcome = "conflict" ->
              [call EXCEPT !.pc = "sleep", !.last = outcome,
                           !.before = call.retryDelay,
                           !.sleepFor = conflictDelay, !.slept = FALSE]
         [] outcome = "error" -> PollBacksOff(call, outcome)
         [] OTHER ->
              IF call.stopping \/ call.token # call.currentToken
              THEN [call EXCEPT !.pc = "exited", !.last = outcome,
                                !.slept = FALSE]
              ELSE PollBacksOff(call, outcome)
  /\ UNCHANGED <<loopVars, router, chat, telegram, oauth, browser, bot>>

\* the sleep is over: after a conflict the delay is reset; then the while
\* condition
PollLoopSleepEnds ==
  /\ call.pc = "sleep"
  /\ call' =
       [call EXCEPT
          !.retryDelay = IF call.last = "conflict" THEN initialRetryDelay
                         ELSE @,
          !.slept = TRUE,
          !.pc = PollGoesOn(call)]
  /\ UNCHANGED <<loopVars, router, chat, telegram, oauth, browser, bot>>

\* meanwhile stop() begins: this.stopping = true; this.polling = false
PollServiceStops ==
  /\ call.pc \in {"fetch", "sleep"}
  /\ call.polling
  /\ call' = StopBegins(call)
  /\ UNCHANGED <<loopVars, router, chat, telegram, oauth, browser, bot>>

\* meanwhile start(token) goes on after its stop: the fields are set anew
PollServiceRestarts(token) ==
  /\ call.pc \in {"fetch", "sleep"}
  /\ ~call.polling
  /\ call' = [call EXCEPT !.token = token, !.polling = TRUE,
                          !.stopping = FALSE]
  /\ UNCHANGED <<loopVars, router, chat, telegram, oauth, browser, bot>>

NextPoll ==
  \/ \E outcome \in PollOutcomes : PollLoopFetchSettles(outcome)
  \/ PollLoopSleepEnds
  \/ PollServiceStops
  \/ \E token \in Tokens : PollServiceRestarts(token)

SpecPoll == InitPoll /\ [][NextPoll]_vars

\* C29: in the poll loop retryDelay stays within 1000..60000; a failure
\* (API error or thrown request) doubles it, capped at 60000, and the loop
\* then sleeps for the new delay; after a successful poll or a 409/Conflict
\* answer the next request is sent with the delay back at 1000; and after
\* any failure the next getUpdates is sent only when the loop has slept.
C29_RetryDelay ==
  /\ call.retryDelay >= 1000
  /\ call.retryDelay <= 60000
  /\ (call.pc = "sleep" /\ call.last \in {"error", "throws"}) =>
       /\ call.retryDelay =
            IF 2 * call.before > 60000 THEN 60000 ELSE 2 * call.before
       /\ call.sleepFor = call.retryDelay
  /\ (call.pc = "fetch" /\ call.last \in {"updates", "conflict"}) =>
       call.retryDelay = 1000
  /\ (call.pc = "fetch" /\ call.last \in {"conflict", "error", "throws"})
       => call.slept

\* the loop failed often enough to reach the cap, slept and polls again
C29_Witness ==
  /\ call.pc = "fetch"
  /\ call.last = "throws"
  /\ call.before = 32000
  /\ call.retryDelay = 60000
  /\ call.slept

----------------------------------------------------------------------------
(* sendMessage and splitMessage: backend/telegram.ts *)

\* the longest text sent, and the largest maxLength (4096 in sendMessage)
MaxSend == 5
MaxLength == 2

\* texts as sequences of UTF-16 code units
SendTexts == UNION { [1..n -> {"a", "b"}] : n \in 0..MaxSend }

\* text.slice(from, to) with 0 <= from; to may exceed the length
Slice(text, from, to) ==
  SubSeq(text, from + 1, IF to < Len(text) THEN to ELSE Len(text))

\* the while loop of splitMessage from currentIndex on
RECURSIVE SplitFrom(_, _, _)
SplitFrom(text, maxLength, currentIndex) ==
  IF currentIndex < Len(text)
  THEN <<Slice(text, currentIndex, currentIndex + maxLength)>>
       \o SplitFrom(text, maxLength, currentIndex + maxLength)
  ELSE <<>>

\* splitMessage, were it to return the text whole
splitMessageWhole(text, maxLength) == <<text>>

splitMessage(text, maxLength) ==
  IF Len(text) <= maxLength THEN <<text>> ELSE SplitFrom(text, maxLength, 0)

\* sendMessage(chatId, text) has been called; attempts are the texts of the
\* sendMessage requests made so far
InitSend ==
  /\ LoopOff
  /\ router = RouterIdle /\ chat = ChatIdle /\ telegram = TelegramIdle
  /\ ServersIdle
  /\ \E text \in SendTexts, maxLength \in 1..MaxLength :
       call = [pc |-> "called", fn |-> "sendMessage", text |-> text,
               maxLength |-> maxLength, messages |-> <<>>,
               attempts |-> <<>>, failedAt |-> 0]

\* sendMessage up to the first request: throw without a token, else split
\* the text and post the first chunk
SendBegins(hasToken) ==
  /\ call.pc = "called"
  /\ call.fn = "sendMessage"
  /\ call' =
       IF ~hasToken THEN [call EXCEPT !.pc = "threw"]
       ELSE LET parts == splitMessage(call.text, call.maxLength)
            IN [call EXCEPT !.pc = "fetch", !.messages = parts,
                            !.attempts = <<parts[1]>>]
  /\ UNCHANGED <<loopVars, router, chat, telegram, oauth, browser, bot>>

SendOutcomes == {"ok", "not_ok", "throws"}

\* the request for a chunk settles: the next chunk is posted, or the for
\* loop is over, or the failure is thrown
SendFetchSettles(outcome) ==
  /\ call.pc = "fetch"
  /\ call.fn = "sendMessage"
  /\ LET k == Len(call.attempts) IN
     call' =
       IF outcome # "ok"
       THEN [call EXCEPT !.pc = "threw", !.failedAt = k]
       ELSE IF k < Len(call.messages)
       THEN [call EXCEPT !.attempts = Append(@, call.messages[k + 1])]
       ELSE [call EXCEPT !.pc = "returned"]
  /\ UNCHANGED <<loopVars, router, chat, telegram, oauth, browser, bot>>

NextSend ==
  \/ \E hasToken \in BOOLEAN : SendBegins(hasToken)
  \/ \E outcome \in SendOutcomes : SendFetchSettles(outcome)

SpecSend == InitSend /\ [][NextSend]_vars

\* C30: splitMessage returns a non-empty list of chunks, each at most
\* maxLength long and non-empty when the text is non-empty, whose
\* concatenation in order is the text; sendMessage posts the chunks in that
\* order, one after the other, and after the first failing chunk posts no
\* more.
C30_SplitAndSend ==
  call.pc \in {"fetch", "returned"} \/ (call.pc = "threw" /\ call.failedAt > 0)
    => LET chunks == call.messages IN
         /\ Len(chunks) >= 1
         /\ \A k \in 1..Len(chunks) :
              /\ Len(chunks[k]) <= call.maxLength
              /\ call.text # <<>> => chunks[k] # <<>>
         /\ Concat(chunks) = call.text
         /\ Len(call.attempts) <= Len(chunks)
         /\ call.attempts = SubSeq(chunks, 1, Len(call.attempts))
         /\ call.pc = "returned" => call.attempts = chunks
         /\ call.pc = "threw" => Len(call.attempts) = call.failedAt

\* a text of three chunks whose second chunk failed: the third was not sent
C30_Witness ==
  /\ call.pc = "threw"
  /\ Len(call.messages) = 3
  /\ call.failedAt = 2
  /\ Len(call.attempts) = 2
  /\ Len(call.messages[3]) < call.maxLength

----------------------------------------------------------------------------
(* Telegram conversations: handleMessage in backend/telegram.ts *)

\* this.maxHistoryLength (50 in the service), and the updates delivered for
\* the one chat
MaxHistory == 2
MaxUpdates == 2

\* arrays live on a heap and are held by reference: the n-th history array
\* made for the chat, and the two lists made for handler h
HistoryRef(n) == <<"history", n>>
ContextRef(h) == <<"messagesWithContext", h>>
MessagesRef(h) == <<"messages", h>>
NoRef == <<"undefined", 0>>

\* the heap with one more array at ref
Allocate(heap, ref, array) ==
  [r \in DOMAIN heap \cup {ref} |-> IF r = ref THEN array ELSE heap[r]]

\* the heap without the arrays no variable refers to any more
Release(heap, refs) == [r \in DOMAIN heap \ refs |-> heap[r]]

\* a message object: its role, the handler it belongs to (0: an earlier
\* conversation or the system prompt) and whether an agent run appended it
BotMsg(role, from, run) == [role |-> role, from |-> from, run |-> run]

\* the history stored for the chat by earlier, finished handlers
EarlierHistory(n) ==
  [k \in 1..n |->
     BotMsg(IF (n - k) % 2 = 0 THEN "assistant" ELSE "user", 0, FALSE)]

\* `list` itself, were no copy made
spreadAlias(heap, ref, new) == [heap |-> heap, ref |-> ref]

\* [...list]: a new array, at new, with the same elements
spreadCopy(heap, ref, new) ==
  [heap |-> Allocate(heap, new, heap[ref]), ref |-> new]

\* the service while it polls: the heap of arrays, the entry of
\* conversationHistory for the chat, the number of history arrays made, the
\* handleMessage calls and the messages cut off by history.slice
BotInit(n) ==
  [pc |-> "polling",
   heap |-> IF n = 0 THEN <<>> ELSE Allocate(<<>>, HistoryRef(1),
                                             EarlierHistory(n)),
   conversationHistory |-> IF n = 0 THEN NoRef ELSE HistoryRef(1),
   histories |-> IF n = 0 THEN 0 ELSE 1,
   handlers |-> <<>>, dropped |-> {}]

InitBot ==
  /\ LoopOff
  /\ router = RouterIdle /\ chat = ChatIdle /\ telegram = TelegramIdle
  /\ call = CallIdle
  /\ oauth = OAuthIdle /\ browser = BrowserIdle
  /\ \E n \in 0..(MaxHistory + 1) : bot = BotInit(n)

\* the text of an update: something, or blanks only
UpdateTexts == {<<"hi">>, <<" ">>}

\* a call of handleMessage: its position, its variables history,
\* messagesWithContext (with the elements it was built with) and
\* assistantResponse, the messages list of its agent run, and what it did:
\* called sendMessage, delivered the reply, pushed the assistant message
Handler(text) ==
  [pc |-> "start", text |-> text, history |-> NoRef, context |-> NoRef,
   initial |-> <<>>, messages |-> NoRef, response |-> <<>>,
   attempted |-> FALSE, replied |-> FALSE, pushed |-> FALSE]

\* handleMessage from its call in pollLoop to `await selectSkillsForMessages`:
\* return on a blank text; get or create the history, push the user
\* message, cut the history to its last maxHistoryLength messages
HandleMessageBegins(text) ==
  /\ bot.pc = "polling"
  /\ Len(bot.handlers) < MaxUpdates
  /\ LET h == Len(bot.handlers) + 1
         created == bot.conversationHistory = NoRef
         n1 == IF created THEN bot.histories + 1 ELSE bot.histories
         ref1 == IF created THEN HistoryRef(n1) ELSE bot.conversationHistory
         heap1 == IF created THEN Allocate(bot.heap, ref1, <<>>) ELSE bot.heap
         heap2 == [heap1 EXCEPT ![ref1] = Append(@, BotMsg("user", h, FALSE))]
         long == Len(heap2[ref1]) > MaxHistory
         cut == Len(heap2[ref1]) - MaxHistory
         n3 == IF long THEN n1 + 1 ELSE n1
         ref3 == IF long THEN HistoryRef(n3) ELSE ref1
         heap3 == IF long
                  THEN Allocate(heap2, ref3,
                         SubSeq(heap2[ref1], cut + 1, Len(heap2[ref1])))
                  ELSE heap2
     IN bot' =
          IF Trim(text) = <<>>
          THEN [bot EXCEPT !.handlers =
                  Append(@, [Handler(text) EXCEPT !.pc = "returned"])]
          ELSE [bot EXCEPT
                  !.heap = heap3,
                  !.conversationHistory = ref3,
                  !.histories = n3,
                  !.dropped = IF long
                              THEN @ \cup {heap2[ref1][k] : k \in 1..cut}
                              ELSE @,
                  !.handlers = Append(@, [Handler(text) EXCEPT
                                  !.pc = "select", !.history = ref3])]
  /\ UNCHANGED <<loopVars, router, chat, telegram, call, oauth, browser>>

\* this.sendMessage(chatId, ...) is called in handler hd at position at
Sending(hd, at) == [hd EXCEPT !.pc = at, !.attempted = TRUE]

\* the catch block of handleMessage, were it only to log
ApologisesNot(hd) == [hd EXCEPT !.pc = "returned"]

\* the catch block of handleMessage: send the apology
Apologises(hd) == Sending(hd, "send_apology")

\* handleMessage rejects: the catch callback in pollLoop sends an apology
\* and logs if that fails too
PollLoopApologises(hd) == Sending(hd, "send_last")

\* handler h is over: its local variables are gone, and with them the
\* lists only they referred to
Returned(b, h) ==
  [b EXCEPT
     !.heap = Release(@, {b.handlers[h].context, b.handlers[h].messages}),
     !.handlers[h] = [@ EXCEPT !.pc = "returned", !.context = NoRef,
                               !.messages = NoRef, !.initial = <<>>,
                               !.history = NoRef]]

SelectOutcomes == {"resolves", "rejects"}

\* selectSkillsForMessages settles in handler h. When it resolves,
\* buildContextMessages makes the list for the run (the system messages,
\* here one, then the history as it is now), and runAgentLoopStreaming
\* copies it and runs up to its first await
SelectSettles(h, outcome) ==
  /\ h \in 1..Len(bot.handlers)
  /\ bot.handlers[h].pc = "select"
  /\ LET hd == bot.handlers[h]
         built == <<BotMsg("system", 0, FALSE)>> \o bot.heap[hd.history]
         heap1 == Allocate(bot.heap, ContextRef(h), built)
         copy == spreadCopy(heap1, ContextRef(h), MessagesRef(h))
     IN bot' =
          IF outcome = "rejects"
          THEN [bot EXCEPT !.handlers[h] = PollLoopApologises(hd)]
          ELSE [bot EXCEPT
                  !.heap = copy.heap,
                  !.handlers[h] = [hd EXCEPT !.pc = "run",
                     !.context = ContextRef(h), !.initial = built,
                     !.messages = copy.ref]]
  /\ UNCHANGED <<loopVars, router, chat, telegram, call, oauth, browser>>

\* what one turn of the run adds: an assistant message with tool calls and
\* their tool messages, or a final answer, which may be blank
RunTurns == {"tools", "answer", "blank"}

\* one turn of the agent run of handler h: messages.push on its own list,
\* content events handed to sendEvent
RunTurn(h, turn) ==
  /\ h \in 1..Len(bot.handlers)
  /\ bot.handlers[h].pc = "run"
  /\ Len(bot.heap[bot.handlers[h].messages])
       < Len(bot.handlers[h].initial) + 2
  /\ LET hd == bot.handlers[h]
         added == IF turn = "tools"
                  THEN <<BotMsg("assistant", h, TRUE), BotMsg("tool", h, TRUE)>>
                  ELSE <<BotMsg("assistant", h, TRUE)>>
         content == CASE turn = "tools" -> <<>>
                      [] turn = "blank" -> <<" ">>
                      [] OTHER -> <<"r">>
     IN bot' = [bot EXCEPT
          !.heap[hd.messages] = @ \o added,
          !.handlers[h].response = @ \o content,
          !.handlers[h].pc = IF turn \in {"answer", "blank"}
                             THEN "run_ends" ELSE "run"]
  /\ UNCHANGED <<loopVars, router, chat, telegram, call, oauth, browser>>

RunOutcomes == {"resolves", "rejects"}

\* runAgentLoopStreaming settles in handler h (it resolves also after error
\* events and at the iteration cap): send the reply, the fallback, or the
\* apology
RunSettles(h, outcome) ==
  /\ h \in 1..Len(bot.handlers)
  /\ bot.handlers[h].pc \in {"run", "run_ends"}
  /\ outcome = "rejects" => bot.handlers[h].pc = "run"
  /\ LET hd == bot.handlers[h] IN
     bot' = [bot EXCEPT !.handlers[h] =
       IF outcome = "rejects" THEN Apologises(hd)
       ELSE IF Trim(hd.response) # <<>> THEN Sending(hd, "send_reply")
       ELSE Sending(hd, "send_fallback")]
  /\ UNCHANGED <<loopVars, router, chat, telegram, call, oauth, browser>>

\* the sendMessage call of handler h settles. After the reply: push the
\* assistant message on the handler's history array and store that array.
\* A failed reply or fallback goes to the catch block; a failed apology
\* rejects handleMessage
SendSettles(h, ok) ==
  /\ h \in 1..Len(bot.handlers)
  /\ bot.handlers[h].pc \in
       {"send_reply", "send_fallback", "send_apology", "send_last"}
  /\ LET hd == bot.handlers[h] IN
     bot' =
       CASE hd.pc = "send_reply" /\ ok ->
              Returned([bot EXCEPT
                 !.heap[hd.history] = Append(@, BotMsg("assistant", h, FALSE)),
                 !.conversationHistory = hd.history,
                 !.handlers[h].replied = TRUE,
                 !.handlers[h].pushed = TRUE], h)
         [] hd.pc \in {"send_reply", "send_fallback"} /\ ~ok ->
              [bot EXCEPT !.handlers[h] = Apologises(hd)]
         [] hd.pc = "send_apology" /\ ~ok ->
              [bot EXCEPT !.handlers[h] = PollLoopApologises(hd)]
         [] OTHER -> Returned(bot, h)
  /\ UNCHANGED <<loopVars, router, chat, telegram, call, oauth, browser>>

NextBot ==
  \/ \E text \in UpdateTexts : HandleMessageBegins(text)
  \/ \E h \in 1..MaxUpdates, outcome \in SelectOutcomes :
       SelectSettles(h, outcome)
  \/ \E h \in 1..MaxUpdates, turn \in RunTurns : RunTurn(h, turn)
  \/ \E h \in 1..MaxUpdates, outcome \in RunOutcomes : RunSettles(h, outcome)
  \/ \E h \in 1..MaxUpdates, ok \in BOOLEAN : SendSettles(h, ok)

SpecBot == InitBot /\ [][NextBot]_vars

\* the history stored for the chat
StoredHistory ==
  IF bot.conversationHistory = NoRef THEN <<>>
  ELSE bot.heap[bot.conversationHistory]

\* the assistant message handler h pushes after its reply was sent
ReplyOf(h) == BotMsg("assistant", h, FALSE)

AllHandlersReturned ==
  \A h \in 1..Len(bot.handlers) : bot.handlers[h].pc = "returned"

\* C25: with handleMessage calls of one chat overlapping, the stored
\* history never holds more than maxHistoryLength + 1 messages, and once
\* all handlers have finished it holds the assistant message of every reply
\* that was delivered, unless a truncation to maxHistoryLength cut that
\* message off.
C25_HistoryKeepsReplies ==
  /\ Len(StoredHistory) <= MaxHistory + 1
  /\ AllHandlersReturned =>
       \A h \in 1..Len(bot.handlers) :
         bot.handlers[h].replied =>
           \/ \E k \in 1..Len(StoredHistory) : StoredHistory[k] = ReplyOf(h)
           \/ ReplyOf(h) \in bot.dropped

\* the history arrays on the heap
HistoryRefs == {r \in DOMAIN bot.heap : r[1] = "history"}

\* C28: a handleMessage call for a text that is not blank ends only after
\* sendMessage was called at least once (for the reply, the fallback or an
\* apology), also when the agent run resolves without content or rejects;
\* and an assistant message is in a history only for a handler whose
\* non-blank reply was sent.
C28_AlwaysAnswers ==
  /\ \A h \in 1..Len(bot.handlers) :
       LET hd == bot.handlers[h] IN
         /\ (hd.pc = "returned" /\ Trim(hd.text) # <<>>) => hd.attempted
         /\ hd.pushed => hd.replied /\ Trim(hd.response) # <<>>
  /\ \A r \in HistoryRefs : \A k \in 1..Len(bot.heap[r]) :
       LET m == bot.heap[r][k] IN
         (m.role = "assistant" /\ m.from # 0) =>
           bot.handlers[m.from].replied /\ bot.handlers[m.from].pushed

\* one handler's run rejected and its apology went out; another handler's
\* reply was sent and pushed
C28_Witness ==
  \E h1, h2 \in 1..Len(bot.handlers) :
    /\ bot.handlers[h1].pc = "returned"
    /\ bot.handlers[h1].attempted /\ ~bot.handlers[h1].replied
    /\ bot.handlers[h1].response = <<>>
    /\ bot.handlers[h2].pushed

\* the handlers whose agent run has its lists on the heap
RunningHandlers ==
  {h \in 1..Len(bot.handlers) : bot.handlers[h].context # NoRef}

\* C23: the list the caller hands to runAgentLoopStreaming keeps the
\* elements it was built with, in their order; the run's own list is that
\* list followed by the messages this run appended, and by none of another
\* run; and no message appended by a run is in a history array or in the
\* list built for another run.
C23_PrivateCopy ==
  /\ \A h \in RunningHandlers :
       LET hd == bot.handlers[h]
           own == bot.heap[hd.messages]
           n == Len(hd.initial)
       IN /\ bot.heap[hd.context] = hd.initial
          /\ \A k \in 1..n : ~hd.initial[k].run
          /\ Len(own) >= n
          /\ SubSeq(own, 1, n) = hd.initial
          /\ \A k \in (n + 1)..Len(own) : own[k].run /\ own[k].from = h
  /\ \A r \in HistoryRefs : \A k \in 1..Len(bot.heap[r]) : ~bot.heap[r][k].run

\* two runs have appended to their lists at overlapping times
C23_Witness ==
  \E h1, h2 \in RunningHandlers :
    /\ h1 # h2
    /\ bot.handlers[h1].pc = "run" /\ bot.handlers[h2].pc = "run"
    /\ Len(bot.heap[bot.handlers[h1].messages])
         > Len(bot.handlers[h1].initial)
    /\ Len(bot.heap[bot.handlers[h2].messages])
         > Len(bot.handlers[h2].initial)

----------------------------------------------------------------------------
(* Google OAuth: /api/auth/google/start and /api/auth/google/callback *)

\* how many state values /start issues, and how many callbacks arrive
MaxStates == 2
MaxCallbacks == 3

\* the k-th value of crypto.randomUUID()
UUID(k) == <<"uuid", k>>
\* url.searchParams.get("state") when the parameter is absent
MissingState == <<"null", 0>>
\* a value that /start never returns
ForgedState == <<"forged", 0>>
CallbackStates ==
  {MissingState, ForgedState} \cup {UUID(k) : k \in 1..MaxStates}
\* url.searchParams.get("code"): absent, or a code
CallbackCodes == {"null", "code"}

\* const pendingGoogleStates = new Set<string>(), and what the handlers did
OAuthInit ==
  [pc |-> "serving", pendingGoogleStates |-> {}, issued |-> 0,
   exchanges |-> <<>>, callbacks |-> <<>>]

InitOAuth ==
  /\ LoopOff
  /\ router = RouterIdle /\ chat = ChatIdle /\ telegram = TelegramIdle
  /\ call = CallIdle
  /\ browser = BrowserIdle /\ bot = BotIdle
  /\ oauth = OAuthInit

\* /api/auth/google/start: 500 when client_secret.json has no client_id or
\* cannot be read, else a fresh state is added and the browser redirected
OAuthStart(hasClientId) ==
  /\ oauth.pc = "serving"
  /\ oauth.issued < MaxStates
  /\ oauth' =
       IF hasClientId
       THEN [oauth EXCEPT !.issued = @ + 1,
               !.pendingGoogleStates = @ \cup {UUID(oauth.issued + 1)}]
       ELSE oauth
  /\ UNCHANGED <<loopVars, router, chat, telegram, call, browser, bot>>

\* the callback handler up to its first await, were the state deleted only
\* once the exchange has succeeded
OAuthCallbackKeepsState(code, state, hasCredentials) ==
  /\ oauth.pc = "serving"
  /\ Len(oauth.callbacks) < MaxCallbacks
  /\ LET before == oauth.pendingGoogleStates
         rejected == code = "null" \/ state = MissingState
                     \/ state \notin before
         status == IF rejected THEN 400
                   ELSE IF ~hasCredentials THEN 500 ELSE 0
     IN oauth' = [oauth EXCEPT
          !.exchanges = IF status = 0
                        THEN Append(@, [state |-> state, pc |-> "fetch"])
                        ELSE @,
          !.callbacks = Append(@, [code |-> code, state |-> state,
                                   status |-> status, before |-> before,
                                   after |-> before])]
  /\ UNCHANGED <<loopVars, router, chat, telegram, call, browser, bot>>

\* the callback handler up to its first await: 400 without a code, 400 when
\* the state is absent or not pending, else the state is deleted and, with
\* credentials at hand, the token request is sent (status 0: no response yet)
OAuthCallback(code, state, hasCredentials) ==
  /\ oauth.pc = "serving"
  /\ Len(oauth.callbacks) < MaxCallbacks
  /\ LET before == oauth.pendingGoogleStates
         rejected == code = "null" \/ state = MissingState
                     \/ state \notin before
         after == IF rejected THEN before ELSE before \ {state}
         status == IF rejected THEN 400
                   ELSE IF ~hasCredentials THEN 500 ELSE 0
     IN oauth' = [oauth EXCEPT
          !.pendingGoogleStates = after,
          !.exchanges = IF status = 0
                        THEN Append(@, [state |-> state, pc |-> "fetch"])
                        ELSE @,
          !.callbacks = Append(@, [code |-> code, state |-> state,
                                   status |-> status, before |-> before,
                                   after |-> after])]
  /\ UNCHANGED <<loopVars, router, chat, telegram, call, browser, bot>>

\* the token request of exchange x settles: not ok or thrown (500), or ok
ExchangeOutcomes == {"ok", "failed", "throws"}

OAuthExchangeSettles(x, outcome) ==
  /\ oauth.pc = "serving"
  /\ x \in 1..Len(oauth.exchanges)
  /\ oauth.exchanges[x].pc = "fetch"
  /\ oauth' = [oauth EXCEPT !.exchanges[x].pc = outcome]
  /\ UNCHANGED <<loopVars, router, chat, telegram, call, browser, bot>>

NextOAuth ==
  \/ \E hasClientId \in BOOLEAN : OAuthStart(hasClientId)
  \/ \E code \in CallbackCodes, state \in CallbackStates,
        hasCredentials \in BOOLEAN :
       OAuthCallback(code, state, hasCredentials)
  \/ \E x \in 1..MaxCallbacks, outcome \in ExchangeOutcomes :
       OAuthExchangeSettles(x, outcome)

SpecOAuth == InitOAuth /\ [][NextOAuth]_vars

IssuedStates == {UUID(k) : k \in 1..oauth.issued}

\* the callbacks that got past the state check
AcceptedCallbacks ==
  SelectSeq(oauth.callbacks, LAMBDA c : c.status # 400)

\* C27: the callback sends a token request only for a state that /start
\* issued and that no earlier callback was accepted with; every issued
\* state is accepted at most once, also when its exchange failed; a callback
\* whose state is missing or was never issued is answered 400 and leaves
\* pendingGoogleStates as it was.
C27_StateAcceptedOnce ==
  LET acc == AcceptedCallbacks IN
    /\ \A x \in 1..Len(oauth.exchanges) :
         /\ oauth.exchanges[x].state \in IssuedStates
         /\ \E a \in 1..Len(acc) : acc[a].state = oauth.exchanges[x].state
    /\ \A a \in 1..Len(acc) :
         /\ acc[a].state \in IssuedStates
         /\ \A b \in 1..Len(acc) : acc[b].state = acc[a].state => a = b
    /\ \A x, y \in 1..Len(oauth.exchanges) :
         oauth.exchanges[x].state = oauth.exchanges[y].state => x = y
    /\ \A c \in 1..Len(oauth.callbacks) :
         LET cb == oauth.callbacks[c] IN
           (\/ cb.state = MissingState
            \/ cb.state \notin IssuedStates
            \/ cb.state \notin cb.before) =>
             cb.status = 400 /\ cb.after = cb.before

\* a state was accepted, its exchange failed, and a second callback with
\* the same state was turned away; a never-issued state was turned away too
C27_Witness ==
  /\ \E x \in 1..Len(oauth.exchanges) :
       /\ oauth.exchanges[x].pc = "failed"
       /\ \E c \in 1..Len(oauth.callbacks) :
            /\ oauth.callbacks[c].state = oauth.exchanges[x].state
            /\ oauth.callbacks[c].code = "code"
            /\ oauth.callbacks[c].status = 400
  /\ \E c \in 1..Len(oauth.callbacks) :
       oauth.callbacks[c].state = ForgedState

----------------------------------------------------------------------------
(* Browser module: backend/browser.ts *)

\* how many browser tool calls overlap
MaxCallers == 3

\* null, for browserState.browser and browserState.context
NoHandle == 0

\* browserState, browserLaunching, and the callers of getBrowserContext;
\* launched and contexts count the browsers launched and the calls of
\* browser.newContext
BrowserInit ==
  [pc |-> "loaded", browser |-> NoHandle, context |-> NoHandle,
   browserLaunching |-> FALSE, launched |-> 0, contexts |-> 0,
   callers |-> <<>>]

InitBrowser ==
  /\ LoopOff
  /\ router = RouterIdle /\ chat = ChatIdle /\ telegram = TelegramIdle
  /\ call = CallIdle
  /\ oauth = OAuthIdle /\ bot = BotIdle
  /\ browser = BrowserInit

\* getBrowser up to its return: the connected browser, the launch in
\* flight, or a launch of its own
getBrowser(b, c) ==
  IF b.browser # NoHandle
  THEN [b EXCEPT !.callers[c].pc = "has_browser"]
  ELSE [b EXCEPT !.browserLaunching = TRUE,
                 !.callers[c].pc = "await_launch"]

\* a browser tool calls getBrowserContext: the existing context, or
\* `await getBrowser()`
GetContextBegins ==
  /\ browser.pc = "loaded"
  /\ Len(browser.callers) < MaxCallers
  /\ LET c == Len(browser.callers) + 1
         b == [browser EXCEPT !.callers =
                  Append(@, [pc |-> "start", cookies |-> FALSE])]
     IN browser' =
          IF b.context # NoHandle
          THEN [b EXCEPT !.callers[c].pc = "done"]
          ELSE getBrowser(b, c)
  /\ UNCHANGED <<loopVars, router, chat, telegram, call, oauth, bot>>

\* chromium.launch settles: browserState.browser is set and every caller
\* awaiting browserLaunching gets the browser, or they all fail; finally
\* clears browserLaunching
LaunchSettles(ok) ==
  /\ browser.pc = "loaded"
  /\ browser.browserLaunching
  /\ browser' = [browser EXCEPT
       !.browserLaunching = FALSE,
       !.browser = IF ok THEN 1 ELSE NoHandle,
       !.launched = IF ok THEN @ + 1 ELSE @,
       !.callers = [c \in 1..Len(@) |->
          IF @[c].pc = "await_launch"
          THEN [@[c] EXCEPT !.pc = IF ok THEN "has_browser" ELSE "failed"]
          ELSE @[c]]]
  /\ UNCHANGED <<loopVars, router, chat, telegram, call, oauth, bot>>

\* `await getBrowser()` resumes in caller c: browser.newContext(...) is called
NewContextBegins(c) ==
  /\ c \in 1..Len(browser.callers)
  /\ browser.callers[c].pc = "has_browser"
  /\ browser' = [browser EXCEPT !.contexts = @ + 1,
                                !.callers[c].pc = "await_context"]
  /\ UNCHANGED <<loopVars, router, chat, telegram, call, oauth, bot>>

\* newContext resolves in caller c: with LinkedIn cookies addCookies is
\* awaited first, then browserState.context is set
NewContextSettles(c, hasCookies) ==
  /\ c \in 1..Len(browser.callers)
  /\ browser.callers[c].pc = "await_context"
  /\ browser' =
       IF hasCookies
       THEN [browser EXCEPT !.callers[c].pc = "await_cookies",
                            !.callers[c].cookies = TRUE]
       ELSE [browser EXCEPT !.context = c, !.callers[c].pc = "done"]
  /\ UNCHANGED <<loopVars, router, chat, telegram, call, oauth, bot>>

\* addCookies resolves in caller c
CookiesSettle(c) ==
  /\ c \in 1..Len(browser.callers)
  /\ browser.callers[c].pc = "await_cookies"
  /\ browser' = [browser EXCEPT !.context = c, !.callers[c].pc = "done"]
  /\ UNCHANGED <<loopVars, router, chat, telegram, call, oauth, bot>>

NextBrowser ==
  \/ GetContextBegins
  \/ \E ok \in BOOLEAN : LaunchSettles(ok)
  \/ \E c \in 1..MaxCallers : NewContextBegins(c)
  \/ \E c \in 1..MaxCallers, hasCookies \in BOOLEAN :
       NewContextSettles(c, hasCookies)
  \/ \E c \in 1..MaxCallers : CookiesSettle(c)

SpecBrowser == InitBrowser /\ [][NextBrowser]_vars

\* C26: while the browser stays connected, overlapping browser tool calls
\* launch at most one browser and call browser.newContext at most once: a
\* caller arriving during a launch or a context creation reuses the one
\* being created.
C26_OneBrowserOneContext ==
  /\ browser.launched + (IF browser.browserLaunching THEN 1 ELSE 0) <= 1
  /\ browser.contexts <= 1

====
